---- MODULE Spec2Model ----
(***************************************************************************)
(* A model of the PRD -> domain notation -> API schema pipeline of         *)
(* ForestMars/DrZONST: parse_prd, infer_ddd_elements, generate_csl and     *)
(* main of src/domain/xyz/final-prd-to-csl.py, the line-based parse_prd /  *)
(* infer_ddd_elements of src/domain/good-prd-to-csl.py, and                *)
(* CSLToTypeSpecConverter of src/domain/csl-to-tsp.py.                     *)
(*                                                                         *)
(* Text is modelled as Python models it: a str is a sequence of            *)
(* one-character strings, so that lower(), capitalize(), split(), strip(), *)
(* the `in` substring test and the regular expressions are computed        *)
(* character by character.                                                 *)
(***************************************************************************)
EXTENDS Integers, Sequences, FiniteSets, TLC

VARIABLES
    pc,     \* position of the running program
    prd,    \* the Document Tree (dict built by parse_prd)
    ddd,    \* the Domain Model (dict built by infer_ddd_elements)
    csl,    \* the notation text written by generate_csl
    text,   \* the content of the PRD file
    cur,    \* the locals of the line-based parse_prd: next line, current_section,
            \* current_thing, current_op, current_subsection
    env,    \* the command line and the files the program is started on
    exit,   \* the exit code of the process
    run,    \* how many times the program was started
    first,  \* what the first run wrote to the output file
    tsp     \* the CSLToTypeSpecConverter object: output, indent_level

vars == <<pc, prd, ddd, csl, text, cur, env, exit, run, first, tsp>>

(***************************************************************************)
(* Python str operations                                                   *)
(***************************************************************************)
LowerAlpha == <<"a","b","c","d","e","f","g","h","i","j","k","l","m",
                "n","o","p","q","r","s","t","u","v","w","x","y","z">>
UpperAlpha == <<"A","B","C","D","E","F","G","H","I","J","K","L","M",
                "N","O","P","Q","R","S","T","U","V","W","X","Y","Z">>
Digits == {"0","1","2","3","4","5","6","7","8","9"}

LowerSet == {LowerAlpha[i] : i \in 1..26}
UpperSet == {UpperAlpha[i] : i \in 1..26}

IsLower(c) == c \in LowerSet
IsUpper(c) == c \in UpperSet

\* the regular-expression class \w
IsWord(c) == IsLower(c) \/ IsUpper(c) \/ c \in Digits \/ c = "_"

\* the regular-expression class \s, and what str.strip() / str.split() drop
IsSpace(c) == c \in {" ", "\n", "\t", "\r"}

ToLower == [c \in UpperSet |-> LowerAlpha[CHOOSE i \in 1..26 : UpperAlpha[i] = c]]
ToUpper == [c \in LowerSet |-> UpperAlpha[CHOOSE i \in 1..26 : LowerAlpha[i] = c]]

LowerChar(c) == IF c \in UpperSet THEN ToLower[c] ELSE c
UpperChar(c) == IF c \in LowerSet THEN ToUpper[c] ELSE c

\* str.lower()
Lower(s) == [i \in 1..Len(s) |-> LowerChar(s[i])]

\* str.upper()
Upper(s) == [i \in 1..Len(s) |-> UpperChar(s[i])]

\* str.capitalize(): first character upper-cased, all the others lower-cased
Capitalize(s) == [i \in 1..Len(s) |-> IF i = 1 THEN UpperChar(s[i]) ELSE LowerChar(s[i])]

\* s[i:i+len(sub)] == sub
MatchAt(s, sub, i) ==
    /\ i >= 1
    /\ i + Len(sub) - 1 <= Len(s)
    /\ \A k \in 1..Len(sub) : s[i + k - 1] = sub[k]

\* `sub in s`
Contains(s, sub) == \E i \in 1..(Len(s) - Len(sub) + 1) : MatchAt(s, sub, i)

\* s.find(sub, from): the least index >= from where sub occurs, 0 when none
Find(s, sub, from) ==
    LET hits == {i \in from..(Len(s) - Len(sub) + 1) : MatchAt(s, sub, i)}
    IN  IF hits = {} THEN 0 ELSE CHOOSE i \in hits : \A j \in hits : i <= j

\* str.strip()
Strip(s) ==
    LET keep == {i \in 1..Len(s) : ~IsSpace(s[i])}
    IN  IF keep = {} THEN <<>>
        ELSE LET lo == CHOOSE i \in keep : \A j \in keep : i <= j
                 hi == CHOOSE i \in keep : \A j \in keep : i >= j
             IN  SubSeq(s, lo, hi)

\* str.split(sep) for a one-character separator: always at least one piece
RECURSIVE SplitFrom(_, _, _)
SplitFrom(s, sep, from) ==
    LET i == Find(s, <<sep>>, from)
    IN  IF i = 0 THEN <<SubSeq(s, from, Len(s))>>
        ELSE <<SubSeq(s, from, i - 1)>> \o SplitFrom(s, sep, i + 1)

Split(s, sep) == SplitFrom(s, sep, 1)

\* str.split() without argument: the maximal runs of non-space characters
RECURSIVE WordsFrom(_, _)
WordsFrom(s, from) ==
    LET starts == {i \in from..Len(s) : ~IsSpace(s[i])}
    IN  IF starts = {} THEN <<>>
        ELSE LET lo  == CHOOSE i \in starts : \A j \in starts : i <= j
                 sp  == {i \in lo..Len(s) : IsSpace(s[i])}
                 hi  == IF sp = {} THEN Len(s)
                        ELSE (CHOOSE i \in sp : \A j \in sp : i <= j) - 1
             IN  <<SubSeq(s, lo, hi)>> \o WordsFrom(s, hi + 1)

SplitWords(s) == WordsFrom(s, 1)

\* ''.join(seq)
RECURSIVE Join(_)
Join(seq) == IF seq = <<>> THEN <<>> ELSE Head(seq) \o Join(Tail(seq))

\* str.replace(old, new), left to right, non-overlapping
RECURSIVE ReplaceFrom(_, _, _, _)
ReplaceFrom(s, old, new, from) ==
    LET i == Find(s, old, from)
    IN  IF i = 0 THEN SubSeq(s, from, Len(s))
        ELSE SubSeq(s, from, i - 1) \o new \o ReplaceFrom(s, old, new, i + Len(old))

Replace(s, old, new) == ReplaceFrom(s, old, new, 1)

\* [f(x) for x in seq]
Map(f(_), seq) == [i \in 1..Len(seq) |-> f(seq[i])]

(***************************************************************************)
(* infer_ddd_elements of src/domain/xyz/final-prd-to-csl.py                *)
(***************************************************************************)

\* re.sub(r'[^\w\s]', '', s)
StripPunct(s) == SelectSeq(s, LAMBDA c : IsWord(c) \/ IsSpace(c))

\* ''.join(word.capitalize() for word in re.sub(r'[^\w\s]', '', area).split())
\* if area else 'UnnamedContext'
BoundedContextName(area) ==
    IF area # <<>> THEN Join(Map(Capitalize, SplitWords(StripPunct(area))))
    ELSE <<"U","n","n","a","m","e","d","C","o","n","t","e","x","t">>

\* 'unique' in p['description'].lower()
IsUnique(prop) == Contains(Lower(prop.description), <<"u","n","i","q","u","e">>)

\* has_id = any('unique' in p['description'].lower() for p in thing['properties'])
has_id(thing) == \E i \in 1..Len(thing.properties) : IsUnique(thing.properties[i])

\* p['description'].split(',')[0].strip().capitalize()
PropType(prop) == Capitalize(Strip(Split(prop.description, ",")[1]))

\* one element of entity['attributes']
EntityAttribute(prop) ==
    LET desc        == Split(prop.description, ",")
        type_       == Capitalize(Strip(desc[1]))
        constraints == IF Len(desc) > 1 THEN Map(Strip, Tail(desc)) ELSE <<>>
        attr_type   == IF Contains(Lower(prop.description), <<"l","i","s","t"," ","o","f">>)
                       THEN <<"L","i","s","t">> ELSE type_
    IN  [name |-> prop.name, type |-> attr_type, constraints |-> constraints]

\* one element of entity['behaviors'], from an action "Name: description"
EntityBehavior(action) ==
    LET action_parts == Split(action, ":")
        action_name  == Strip(action_parts[1])
        action_desc  == IF Len(action_parts) > 1 THEN Strip(action_parts[2])
                        ELSE <<"P","e","r","f","o","r","m","s"," ">> \o Lower(action_name) \o <<".">>
    IN  [name |-> action_name, description |-> action_desc]

ThingEntity(thing) ==
    [name        |-> thing.name,
     description |-> thing.description,
     attributes  |-> Map(EntityAttribute, thing.properties),
     invariants  |-> thing.rules,
     behaviors   |-> Map(EntityBehavior, thing.actions)]

ThingAggregate(thing) == [name |-> thing.name, root |-> thing.name]

\* IdPropIndex with the last "unique" property taken instead of the first
IdPropIndex_Last(thing) ==
    LET hits == {i \in 1..Len(thing.properties) : IsUnique(thing.properties[i])}
    IN  IF hits = {} THEN 0 ELSE CHOOSE i \in hits : \A j \in hits : i >= j

\* next((p for p in thing['properties'] if 'unique' in ...), None): 0 is None
IdPropIndex(thing) ==
    LET hits == {i \in 1..Len(thing.properties) : IsUnique(thing.properties[i])}
    IN  IF hits = {} THEN 0 ELSE CHOOSE i \in hits : \A j \in hits : i <= j

ThingRepository(thing) ==
    LET id_prop == thing.properties[IdPropIndex(thing)]
    IN  [name |-> thing.name \o <<"R","e","p","o","s","i","t","o","r","y">>,
         behaviors |-> <<
            <<"f","i","n","d","B","y","I","d","(">> \o id_prop.name \o <<":"," ">> \o PropType(id_prop)
                \o <<")",":"," ">> \o thing.name,
            <<"f","i","n","d","A","l","l","(",")",":"," ","L","i","s","t","<">> \o thing.name \o <<">">>,
            <<"s","a","v","e","(">> \o Lower(thing.name) \o <<":"," ">> \o thing.name \o <<")">>,
            <<"d","e","l","e","t","e","(">> \o Lower(thing.name) \o <<":"," ">> \o thing.name \o <<")">> >>]

VoAttribute(prop) == [name |-> prop.name, type |-> PropType(prop)]

ThingValueObject(thing) ==
    [name        |-> thing.name,
     description |-> thing.description,
     attributes  |-> Map(VoAttribute, thing.properties),
     invariants  |-> thing.rules,
     instances   |-> <<>>]

\* InferThing with a Thing without properties skipped
InferThing_SkipEmpty(d, thing) ==
    IF thing.properties = <<>> THEN d
    ELSE IF has_id(thing)
    THEN [d EXCEPT !.entities     = Append(@, ThingEntity(thing)),
                   !.aggregates   = Append(@, ThingAggregate(thing)),
                   !.repositories = Append(@, ThingRepository(thing))]
    ELSE [d EXCEPT !.value_objects = Append(@, ThingValueObject(thing))]

\* InferThing with an aggregate appended for every Thing
InferThing_AggregateAlways(d, thing) ==
    IF has_id(thing)
    THEN [d EXCEPT !.entities     = Append(@, ThingEntity(thing)),
                   !.aggregates   = Append(@, ThingAggregate(thing)),
                   !.repositories = Append(@, ThingRepository(thing))]
    ELSE [d EXCEPT !.value_objects = Append(@, ThingValueObject(thing)),
                   !.aggregates    = Append(@, ThingAggregate(thing))]

\* one iteration of the first loop over prd['things']
InferThing(d, thing) ==
    IF has_id(thing)
    THEN LET d1 == [d EXCEPT !.entities   = Append(@, ThingEntity(thing)),
                             !.aggregates = Append(@, ThingAggregate(thing))]
         IN  IF IdPropIndex(thing) # 0
             THEN [d1 EXCEPT !.repositories = Append(@, ThingRepository(thing))]
             ELSE d1
    ELSE [d EXCEPT !.value_objects = Append(@, ThingValueObject(thing))]

RECURSIVE InferThings(_, _, _)
InferThings(d, things, i) ==
    IF i > Len(things) THEN d
    ELSE InferThings(InferThing(d, things[i]), things, i + 1)

NonEmpty(s) == s # <<>>

\* the value object synthesized from a "unique" / "valid email" property
PropertyValueObject(thing, prop) ==
    LET vo_name == Capitalize(prop.name)
    IN  [name        |-> vo_name,
         description |-> vo_name \o <<" ","f","o","r"," ">> \o thing.name \o <<".">>,
         attributes  |-> << [name |-> <<"v","a","l","u","e">>, type |-> PropType(prop)] >>,
         invariants  |-> Map(Strip, SelectSeq(Tail(Split(prop.description, ",")), NonEmpty)),
         instances   |-> <<>>]

RoleValueObject ==
    [name        |-> <<"R","o","l","e">>,
     description |-> <<"R","e","p","r","e","s","e","n","t","s"," ","a"," ","u","s","e","r"," ","r","o","l","e",".">>,
     attributes  |-> << [name |-> <<"n","a","m","e">>, type |-> <<"S","t","r","i","n","g">>] >>,
     invariants  |-> << <<"n","a","m","e"," ","m","u","s","t"," ","b","e"," ","A","D","M","I","N"," ","o","r"," ","R","E","G","U","L","A","R","_","U","S","E","R">> >>,
     instances   |-> <<>>]

RoleInstances ==
    << [name |-> <<"A","D","M","I","N">>,        description |-> <<"G","r","a","n","t","s"," ","a","d","d","/","r","e","m","o","v","e"," ","p","e","r","m","i","s","s","i","o","n","s">>],
       [name |-> <<"R","E","G","U","L","A","R","_","U","S","E","R">>, description |-> <<"G","r","a","n","t","s"," ","v","i","e","w"," ","p","e","r","m","i","s","s","i","o","n","s">>] >>

\* next((vo for vo in ddd['value_objects'] if vo['name'] == 'Role'), None): 0 is None
RoleIndex(vos) ==
    LET hits == {i \in 1..Len(vos) : vos[i].name = <<"R","o","l","e">>}
    IN  IF hits = {} THEN 0 ELSE CHOOSE i \in hits : \A j \in hits : i <= j

\* InferProperty without the cue "valid email"
InferProperty_UniqueOnly(d, thing, prop) ==
    IF IsUnique(prop)
    THEN [d EXCEPT !.value_objects = Append(@, PropertyValueObject(thing, prop))]
    ELSE IF Contains(Lower(prop.description), <<"l","i","s","t"," ","o","f"," ","r","o","l","e","s">>)
    THEN LET vos  == d.value_objects
             vos1 == IF RoleIndex(vos) = 0 THEN Append(vos, RoleValueObject) ELSE vos
         IN  [d EXCEPT !.value_objects =
                  [vos1 EXCEPT ![RoleIndex(vos1)].instances = RoleInstances]]
    ELSE d

\* one iteration of the inner loop of the second pass over the things
InferProperty(d, thing, prop) ==
    IF IsUnique(prop) \/ Contains(Lower(prop.description), <<"v","a","l","i","d"," ","e","m","a","i","l">>)
    THEN [d EXCEPT !.value_objects = Append(@, PropertyValueObject(thing, prop))]
    ELSE IF Contains(Lower(prop.description), <<"l","i","s","t"," ","o","f"," ","r","o","l","e","s">>)
    THEN LET vos  == d.value_objects
             vos1 == IF RoleIndex(vos) = 0 THEN Append(vos, RoleValueObject) ELSE vos
         IN  [d EXCEPT !.value_objects =
                  [vos1 EXCEPT ![RoleIndex(vos1)].instances = RoleInstances]]
    ELSE d

RECURSIVE InferProperties(_, _, _, _)
InferProperties(d, things, i, j) ==
    IF i > Len(things) THEN d
    ELSE IF j > Len(things[i].properties) THEN InferProperties(d, things, i + 1, 1)
    ELSE InferProperties(InferProperty(d, things[i], things[i].properties[j]),
                         things, i, j + 1)

\* notif.split(' ')[0:2]
Slice13_FirstTwo(parts) == SubSeq(parts, 1, IF Len(parts) < 2 THEN Len(parts) ELSE 2)

\* notif.split(' ')[1:3]
Slice13(parts) == SubSeq(parts, 2, IF Len(parts) < 3 THEN Len(parts) ELSE 3)

EventAttribute(input) == [name |-> input.name, type |-> Capitalize(input.type)]

DomainEvent(op, notif) ==
    [name        |-> Join(Map(Capitalize, Slice13(Split(notif, " ")))),
     description |-> notif,
     attributes  |-> Map(EventAttribute, op.inputs)]

RECURSIVE InferEvents(_, _, _, _)
InferEvents(d, ops, i, j) ==
    IF i > Len(ops) THEN d
    ELSE IF j > Len(ops[i].notifications) THEN InferEvents(d, ops, i + 1, 1)
    ELSE InferEvents([d EXCEPT !.domain_events =
                          Append(@, DomainEvent(ops[i], ops[i].notifications[j]))],
                     ops, i, j + 1)

\* PermissionRule with " ONLY" left in the role
PermissionRule_KeepOnly(who) ==
    IF Contains(Lower(who), <<"a","l","l"," ","u","s","e","r","s">>)
    THEN <<"T","r","u","e"," ","f","o","r"," ","A","D","M","I","N"," ","o","r"," ","R","E","G","U","L","A","R","_","U","S","E","R"," ","r","o","l","e","s">>
    ELSE <<"T","r","u","e"," ","f","o","r"," ">> \o Upper(StripPunct(who)) \o <<" ","r","o","l","e">>

\* the rule text of one permission behavior
PermissionRule(who) ==
    IF Contains(Lower(who), <<"a","l","l"," ","u","s","e","r","s">>)
    THEN <<"T","r","u","e"," ","f","o","r"," ","A","D","M","I","N"," ","o","r"," ","R","E","G","U","L","A","R","_","U","S","E","R"," ","r","o","l","e","s">>
    ELSE <<"T","r","u","e"," ","f","o","r"," ">> \o Replace(Upper(StripPunct(who)), <<" ","O","N","L","Y">>, <<>>) \o <<" ","r","o","l","e">>

PermissionBehavior(op) ==
    [name        |-> <<"c","a","n">> \o Join(Map(Capitalize, SplitWords(op.name))),
     description |-> <<"C","h","e","c","k","s"," ","i","f"," ","a"," ","u","s","e","r"," ","c","a","n"," ">> \o Lower(op.name) \o <<".">>,
     rule        |-> PermissionRule(op.who)]

\* infer_ddd_elements without the test `if permission_behaviors`
InferService_Always(d, ops) ==
    [d EXCEPT !.domain_services = Append(@,
         [name        |-> <<"I","n","v","e","n","t","o","r","y","P","e","r","m","i","s","s","i","o","n","P","o","l","i","c","y">>,
          description |-> <<"M","a","n","a","g","e","s"," ","p","e","r","m","i","s","s","i","o","n","s"," ","f","o","r"," ","i","n","v","e","n","t","o","r","y"," ","o","p","e","r","a","t","i","o","n","s",".">>,
          behaviors   |-> Map(PermissionBehavior, ops)])]

InferService(d, ops) ==
    LET permission_behaviors == Map(PermissionBehavior, ops)
    IN  IF permission_behaviors # <<>>
        THEN [d EXCEPT !.domain_services = Append(@,
                  [name        |-> <<"I","n","v","e","n","t","o","r","y","P","e","r","m","i","s","s","i","o","n","P","o","l","i","c","y">>,
                   description |-> <<"M","a","n","a","g","e","s"," ","p","e","r","m","i","s","s","i","o","n","s"," ","f","o","r"," ","i","n","v","e","n","t","o","r","y"," ","o","p","e","r","a","t","i","o","n","s",".">>,
                   behaviors   |-> permission_behaviors])]
        ELSE d

\* the dict infer_ddd_elements starts from
EmptyModel(p) ==
    [bounded_context |-> BoundedContextName(p.overview.business_area),
     description     |-> p.overview.description,
     entities        |-> <<>>,
     value_objects   |-> <<>>,
     aggregates      |-> <<>>,
     domain_services |-> <<>>,
     domain_events   |-> <<>>,
     repositories    |-> <<>>,
     relationships   |-> p.connections]

infer_ddd_elements(p) ==
    LET d1 == InferThings(EmptyModel(p), p.things, 1)
        d2 == InferProperties(d1, p.things, 1, 1)
        d3 == InferEvents(d2, p.operations, 1, 1)
    IN  InferService(d3, p.operations)

\* The objects infer_ddd_elements shares with the Document Tree: thing['rules']
\* is, uncopied, the `invariants` list of the entity or value object built from
\* the Thing (lines 231 and 271).  ValueObjectThings gives, for the k-th value
\* object of the first pass, the number of the Thing it was built from.
ValueObjectThings(things) ==
    LET F[i \in 0..Len(things)] ==
            IF i = 0 THEN <<>>
            ELSE IF has_id(things[i]) THEN F[i - 1] ELSE Append(F[i - 1], i)
    IN  F[Len(things)]

\* role_vo['invariants'].extend([...]) in place of the assignment of line 303
RoleWrite_InvariantsExtended ==
    [key |-> "invariants", in_place |-> TRUE, value |-> RoleValueObject.invariants]

\* role_vo['instances'] = [...]: the key of the value object's own dict is
\* bound to a new list
RoleWrite == [key |-> "instances", in_place |-> FALSE, value |-> RoleInstances]

\* the Document Tree after write w on the value object built from the Thing
\* number owner (0: a dict infer_ddd_elements made from nothing of the tree)
WriteThrough(p, owner, w) ==
    IF w.in_place /\ w.key = "invariants" /\ owner # 0
    THEN [p EXCEPT !.things[owner].rules = @ \o w.value]
    ELSE p

\* the Document Tree after the second pass over the things: the only write of
\* infer_ddd_elements on an object it did not just create itself is the one
\* on role_vo, which may be the value object of a Thing named Role
RECURSIVE TreeAfterProperties(_, _, _, _, _)
TreeAfterProperties(d, p, things, i, j) ==
    IF i > Len(things) THEN p
    ELSE IF j > Len(things[i].properties) THEN TreeAfterProperties(d, p, things, i + 1, 1)
    ELSE LET prop  == things[i].properties[j]
             d1    == InferProperty(d, things[i], prop)
             k     == RoleIndex(d1.value_objects)
             built == ValueObjectThings(things)
             owner == IF k <= Len(built) THEN built[k] ELSE 0
             role  == /\ ~IsUnique(prop)
                      /\ ~Contains(Lower(prop.description), <<"v","a","l","i","d"," ","e","m","a","i","l">>)
                      /\ Contains(Lower(prop.description), <<"l","i","s","t"," ","o","f"," ","r","o","l","e","s">>)
         IN  TreeAfterProperties(d1, IF role THEN WriteThrough(p, owner, RoleWrite) ELSE p,
                                 things, i, j + 1)

\* prd when infer_ddd_elements(prd) has returned
TreeAfterInfer(p) ==
    TreeAfterProperties(InferThings(EmptyModel(p), p.things, 1), p, p.things, 1, 1)

(***************************************************************************)
(* The line-based parse_prd of src/domain/good-prd-to-csl.py               *)
(***************************************************************************)
Min(S) == CHOOSE x \in S : \A y \in S : x <= y

\* s[i-1:] (i counted from 1)
Rest(s, i) == SubSeq(s, i, Len(s))

\* the index of the last character of the longest run of \w starting at i
\* (i - 1 when s[i] is no word character): where a greedy \w+ at i ends
RECURSIVE WordEnd(_, _)
WordEnd(s, i) ==
    IF i > Len(s) \/ ~IsWord(s[i]) THEN i - 1 ELSE WordEnd(s, i + 1)

\* the first index >= i that holds no whitespace: where a greedy \s* at i ends
RECURSIVE SkipSpaces(_, _)
SkipSpaces(s, i) ==
    IF i > Len(s) \/ ~IsSpace(s[i]) THEN i ELSE SkipSpaces(s, i + 1)

\* the index after \w+(?:\s+\w+)? matched at i, 0 when \w+ does not match
NameEnd(s, i) ==
    LET e1 == WordEnd(s, i)
        j  == SkipSpaces(s, e1 + 1)
    IN  IF e1 < i THEN 0
        ELSE IF j > e1 + 1 /\ WordEnd(s, j) >= j THEN WordEnd(s, j) + 1
        ELSE e1 + 1

\* re.match(r'#\s*(?:Section:\s*)?(\w+(?:\s+\w+)?)', line, re.IGNORECASE):
\* group(1), or <<>> when the line does not match
SectionMatch(line) ==
    IF ~MatchAt(line, <<"#">>, 1) THEN <<>>
    ELSE LET j == SkipSpaces(line, 2)
             k == SkipSpaces(line, j + 8)
         IN  IF MatchAt(Lower(line), <<"s","e","c","t","i","o","n",":">>, j) /\ NameEnd(line, k) # 0
             THEN SubSeq(line, k, NameEnd(line, k) - 1)
             ELSE IF NameEnd(line, j) # 0
             THEN SubSeq(line, j, NameEnd(line, j) - 1)
             ELSE <<>>

NoMatch == [ok |-> FALSE, g1 |-> <<>>, g2 |-> <<>>]

\* re.match(r'- (\w+): (.*)', line)
ThingMatch(line) ==
    LET e == WordEnd(line, 3)
    IN  IF MatchAt(line, <<"-"," ">>, 1) /\ e >= 3 /\ MatchAt(line, <<":"," ">>, e + 1)
        THEN [ok |-> TRUE, g1 |-> SubSeq(line, 3, e), g2 |-> Rest(line, e + 3)]
        ELSE NoMatch

\* re.match(r'##\s*(Properties|Rules|Actions):?', line, re.IGNORECASE):
\* group(1), or <<>> when the line does not match
SubheaderMatch(line) ==
    LET j == SkipSpaces(line, 3)
        hits == {w \in { <<"p","r","o","p","e","r","t","i","e","s">>, <<"r","u","l","e","s">>, <<"a","c","t","i","o","n","s">> } : MatchAt(Lower(line), w, j)}
    IN  IF MatchAt(line, <<"#","#">>, 1) /\ hits # {}
        THEN LET w == CHOOSE w \in hits : TRUE IN SubSeq(line, j, j + Len(w) - 1)
        ELSE <<>>

\* re.match(r'(\w+):\s*(.*)', content)
PropMatch(content) ==
    LET e == WordEnd(content, 1)
    IN  IF e >= 1 /\ MatchAt(content, <<":">>, e + 1)
        THEN [ok |-> TRUE, g1 |-> SubSeq(content, 1, e),
              g2 |-> Rest(content, SkipSpaces(content, e + 2))]
        ELSE NoMatch

\* re.match(r'(\w+\s+\w+):\s*(.*)', content)
ActionMatch(content) ==
    LET e1 == WordEnd(content, 1)
        j  == SkipSpaces(content, e1 + 1)
        e2 == WordEnd(content, j)
    IN  IF e1 >= 1 /\ j > e1 + 1 /\ e2 >= j /\ MatchAt(content, <<":">>, e2 + 1)
        THEN [ok |-> TRUE, g1 |-> SubSeq(content, 1, e2),
              g2 |-> Rest(content, SkipSpaces(content, e2 + 2))]
        ELSE NoMatch

\* re.match(r'- (.*?)(?::\s*(.*))?$', line); a group that did not take part is <<>>
ItemMatch(line) ==
    LET c == Find(line, <<":">>, 3)
    IN  IF ~MatchAt(line, <<"-"," ">>, 1) THEN NoMatch
        ELSE IF c = 0 THEN [ok |-> TRUE, g1 |-> Rest(line, 3), g2 |-> <<>>]
        ELSE [ok |-> TRUE, g1 |-> SubSeq(line, 3, c - 1),
              g2 |-> Rest(line, SkipSpaces(line, c + 1))]

\* re.match(prefix + r'(.*)', line) for a literal prefix
PrefixMatch(line, prefix) ==
    IF MatchAt(line, prefix, 1)
    THEN [ok |-> TRUE, g1 |-> Rest(line, Len(prefix) + 1), g2 |-> <<>>]
    ELSE NoMatch

\* re.match(prefix + r'\s*(.*)', line) for a literal prefix
PrefixSpacesMatch(line, prefix) ==
    IF MatchAt(line, prefix, 1)
    THEN [ok |-> TRUE, g1 |-> Rest(line, SkipSpaces(line, Len(prefix) + 1)), g2 |-> <<>>]
    ELSE NoMatch

\* re.match(r'- (\w+): (\w+)', line)
InputMatch(line) ==
    LET e1 == WordEnd(line, 3)
        e2 == WordEnd(line, e1 + 3)
    IN  IF MatchAt(line, <<"-"," ">>, 1) /\ e1 >= 3 /\ MatchAt(line, <<":"," ">>, e1 + 1)
           /\ e2 >= e1 + 3
        THEN [ok |-> TRUE, g1 |-> SubSeq(line, 3, e1), g2 |-> SubSeq(line, e1 + 3, e2)]
        ELSE NoMatch

\* re.match(r'\s*- (.*)', line)
BulletMatch(line) ==
    LET j == SkipSpaces(line, 1)
    IN  IF MatchAt(line, <<"-"," ">>, j)
        THEN [ok |-> TRUE, g1 |-> Rest(line, j + 2), g2 |-> <<>>]
        ELSE NoMatch

\* re.match(r'##\s*(.*?)$', line) on a stripped line
OpMatch(line) ==
    IF MatchAt(line, <<"#","#">>, 1)
    THEN [ok |-> TRUE, g1 |-> Rest(line, SkipSpaces(line, 3)), g2 |-> <<>>]
    ELSE NoMatch

\* the parser's locals before the file is read; <<>> and 0 stand for None,
\* thing and op are positions in prd.things and prd.operations, i is the
\* position of the loop in lines
StartOfFile ==
    [lines |-> <<>>, i |-> 1, section |-> <<>>, thing |-> 0, op |-> 0, subsection |-> <<>>]

\* the overview branch
OverviewLine(st, line) ==
    LET desc_match == PrefixMatch(line, <<"-"," ","P","r","o","d","u","c","t"," ","D","e","s","c","r","i","p","t","i","o","n",":"," ">>)
        area_match == PrefixMatch(line, <<"-"," ","B","u","s","i","n","e","s","s"," ","A","r","e","a",":"," ">>)
        imp_match  == PrefixMatch(line, <<"-"," ","I","m","p","o","r","t","a","n","c","e",":"," ">>)
    IN  IF desc_match.ok THEN [st EXCEPT !.prd.overview.description = desc_match.g1]
        ELSE IF area_match.ok THEN [st EXCEPT !.prd.overview.business_area = area_match.g1]
        ELSE IF imp_match.ok THEN [st EXCEPT !.prd.overview.importance = imp_match.g1]
        ELSE st

\* the key_terms / features / connections / constraints branch
ItemLine(st, line) ==
    LET item_match == ItemMatch(line)
        item == [name |-> item_match.g1, description |-> item_match.g2]
    IN  IF ~item_match.ok THEN st
        ELSE IF st.section = <<"k","e","y","_","t","e","r","m","s">> THEN [st EXCEPT !.prd.key_terms = Append(@, item)]
        ELSE IF st.section = <<"f","e","a","t","u","r","e","s">> THEN [st EXCEPT !.prd.features = Append(@, item)]
        ELSE IF st.section = <<"c","o","n","n","e","c","t","i","o","n","s">>
        THEN [st EXCEPT !.prd.connections = Append(@, item)]
        ELSE [st EXCEPT !.prd.constraints = Append(@, item_match.g1)]

\* SubsectionItem with the items of a Rules subsection left out
SubsectionItem_RulesDropped(st, line) ==
    LET content      == Strip(Rest(line, 3))
        prop_match   == PropMatch(content)
        action_match == ActionMatch(content)
    IN  IF st.subsection = <<"p","r","o","p","e","r","t","i","e","s">>
        THEN IF prop_match.ok
             THEN [st EXCEPT !.prd.things[st.thing].properties =
                       Append(@, [name |-> prop_match.g1, description |-> prop_match.g2])]
             ELSE st
        ELSE IF st.subsection = <<"r","u","l","e","s">>
        THEN st
        ELSE IF st.subsection = <<"a","c","t","i","o","n","s">>
        THEN IF action_match.ok
             THEN [st EXCEPT !.prd.things[st.thing].actions =
                       Append(@, [name |-> action_match.g1,
                                  description |-> action_match.g2])]
             ELSE st
        ELSE st

\* an item line inside a Properties / Rules / Actions subsection
SubsectionItem(st, line) ==
    LET content      == Strip(Rest(line, 3))
        prop_match   == PropMatch(content)
        action_match == ActionMatch(content)
    IN  IF st.subsection = <<"p","r","o","p","e","r","t","i","e","s">>
        THEN IF prop_match.ok
             THEN [st EXCEPT !.prd.things[st.thing].properties =
                       Append(@, [name |-> prop_match.g1, description |-> prop_match.g2])]
             ELSE st
        ELSE IF st.subsection = <<"r","u","l","e","s">>
        THEN [st EXCEPT !.prd.things[st.thing].rules = Append(@, content)]
        ELSE IF st.subsection = <<"a","c","t","i","o","n","s">>
        THEN IF action_match.ok
             THEN [st EXCEPT !.prd.things[st.thing].actions =
                       Append(@, [name |-> action_match.g1,
                                  description |-> action_match.g2])]
             ELSE st
        ELSE st

NewThing(name, description) ==
    [name |-> name, description |-> description,
     properties |-> <<>>, rules |-> <<>>, actions |-> <<>>]

\* ThingsLine with a Thing started by every bullet it matches, in a subsection too
ThingsLine_AnyBullet(st, line) ==
    LET thing_match     == ThingMatch(line)
        subheader_match == SubheaderMatch(line)
    IN  IF thing_match.ok
        THEN [st EXCEPT !.prd.things = Append(@, NewThing(thing_match.g1, thing_match.g2)),
                        !.thing = Len(st.prd.things) + 1]
        ELSE IF subheader_match # <<>> /\ st.thing # 0
        THEN [st EXCEPT !.subsection = Lower(subheader_match)]
        ELSE IF st.thing # 0 /\ MatchAt(line, <<"-"," ">>, 1) /\ st.subsection # <<>>
        THEN SubsectionItem(st, line)
        ELSE st

\* the things branch
ThingsLine(st, line) ==
    LET thing_match     == ThingMatch(line)
        subheader_match == SubheaderMatch(line)
    IN  IF thing_match.ok /\ st.subsection = <<>>
        THEN [st EXCEPT !.prd.things = Append(@, NewThing(thing_match.g1, thing_match.g2)),
                        !.thing = Len(st.prd.things) + 1]
        ELSE IF subheader_match # <<>> /\ st.thing # 0
        THEN [st EXCEPT !.subsection = Lower(subheader_match)]
        ELSE IF st.thing # 0 /\ MatchAt(line, <<"-"," ">>, 1) /\ st.subsection # <<>>
        THEN SubsectionItem(st, line)
        ELSE st

NewOperation(name) ==
    [name |-> name, description |-> <<>>, who |-> <<>>, inputs |-> <<>>,
     outputs |-> <<>>, conditions |-> <<>>, results |-> <<>>, notifications |-> <<>>]

\* re.match(label + r'\s*(.*)', line) or re.match(r'\s*- (.*)', line)
\* if word in (current_subsection or '') else None
ListMatch(st, line, label, word) ==
    IF Contains(st.subsection, word)
    THEN IF PrefixSpacesMatch(line, label).ok THEN PrefixSpacesMatch(line, label)
         ELSE BulletMatch(line)
    ELSE NoMatch

\* a line of an operation block that is no ## header
OperationField(st, line) ==
    LET desc_match   == PrefixMatch(line, <<"-"," ","D","e","s","c","r","i","b","e"," ","w","h","a","t"," ","t","h","e"," ","a","c","t","i","o","n"," ","d","o","e","s",":"," ">>)
        who_match    == PrefixMatch(line, <<"-"," ","W","h","o"," ","C","a","n"," ","D","o"," ","I","t",":"," ">>)
        input_match  == InputMatch(line)
        output_match == PrefixMatch(line, <<"-"," ","O","u","t","p","u","t","s",":"," ">>)
        cond_match   == ListMatch(st, line, <<"-"," ","C","o","n","d","i","t","i","o","n","s",":">>, <<"c","o","n","d","i","t","i","o","n","s">>)
        result_match == PrefixMatch(line, <<"-"," ","R","e","s","u","l","t","s",":"," ">>)
        notif_match  == ListMatch(st, line, <<"-"," ","N","o","t","i","f","i","c","a","t","i","o","n","s",":">>, <<"n","o","t","i","f","i","c","a","t","i","o","n","s">>)
    IN  IF desc_match.ok
        THEN [st EXCEPT !.prd.operations[st.op].description = desc_match.g1]
        ELSE IF who_match.ok
        THEN [st EXCEPT !.prd.operations[st.op].who = who_match.g1]
        ELSE IF input_match.ok /\ Contains(Lower(line), <<"i","n","p","u","t","s">>)
        THEN [st EXCEPT !.subsection = <<"i","n","p","u","t","s">>]
        ELSE IF input_match.ok /\ st.subsection = <<"i","n","p","u","t","s">>
        THEN [st EXCEPT !.prd.operations[st.op].inputs =
                  Append(@, [name |-> input_match.g1, type |-> input_match.g2])]
        ELSE IF output_match.ok
        THEN [st EXCEPT !.prd.operations[st.op].outputs = output_match.g1,
                        !.subsection = <<"o","u","t","p","u","t","s">>]
        ELSE IF cond_match.ok
        THEN IF cond_match.g1 # <<>> /\ ~MatchAt(cond_match.g1, <<"C","o","n","d","i","t","i","o","n","s",":">>, 1)
             THEN [st EXCEPT !.prd.operations[st.op].conditions = Append(@, cond_match.g1),
                             !.subsection = <<"c","o","n","d","i","t","i","o","n","s">>]
             ELSE [st EXCEPT !.subsection = <<"c","o","n","d","i","t","i","o","n","s">>]
        ELSE IF result_match.ok
        THEN [st EXCEPT !.prd.operations[st.op].results = result_match.g1,
                        !.subsection = <<"r","e","s","u","l","t","s">>]
        ELSE IF notif_match.ok
        THEN IF notif_match.g1 # <<>> /\ ~MatchAt(notif_match.g1, <<"N","o","t","i","f","i","c","a","t","i","o","n","s",":">>, 1)
             THEN [st EXCEPT !.prd.operations[st.op].notifications =
                                 Append(@, notif_match.g1),
                             !.subsection = <<"n","o","t","i","f","i","c","a","t","i","o","n","s">>]
             ELSE [st EXCEPT !.subsection = <<"n","o","t","i","f","i","c","a","t","i","o","n","s">>]
        ELSE st

\* the operations branch
OperationsLine(st, line) ==
    LET op_match == OpMatch(line)
    IN  IF op_match.ok
        THEN [st EXCEPT !.prd.operations = Append(@, NewOperation(op_match.g1)),
                        !.op = Len(st.prd.operations) + 1,
                        !.subsection = <<>>]
        ELSE IF st.op # 0 THEN OperationField(st, line)
        ELSE st

\* the body of `for line in lines:` on one line of the file
GoodLine(st, raw) ==
    LET line == Strip(raw)
        section_match == SectionMatch(line)
    IN  IF line = <<>> \/ MatchAt(line, <<"#"," ","P","r","o","d","u","c","t"," ","R","e","q","u","i","r","e","m","e","n","t","s"," ","D","o","c","u","m","e","n","t">>, 1) THEN st
        ELSE IF section_match # <<>>
        THEN [st EXCEPT !.section = Replace(Lower(section_match), <<" ">>, <<"_">>),
                        !.thing = 0, !.op = 0, !.subsection = <<>>]
        ELSE IF st.section = <<>> THEN st
        ELSE IF st.section = <<"o","v","e","r","v","i","e","w">> THEN OverviewLine(st, line)
        ELSE IF st.section \in { <<"k","e","y","_","t","e","r","m","s">>, <<"f","e","a","t","u","r","e","s">>, <<"c","o","n","n","e","c","t","i","o","n","s">>, <<"c","o","n","s","t","r","a","i","n","t","s">> }
        THEN ItemLine(st, line)
        ELSE IF st.section = <<"t","h","i","n","g","s">> THEN ThingsLine(st, line)
        ELSE IF st.section = <<"o","p","e","r","a","t","i","o","n","s">> THEN OperationsLine(st, line)
        ELSE st

\* f.readlines(); the line ends, which line.strip() removes, are left out
ReadLines(content) ==
    LET parts == Split(content, "\n")
    IN  IF parts[Len(parts)] = <<>> THEN SubSeq(parts, 1, Len(parts) - 1) ELSE parts

(***************************************************************************)
(* infer_ddd_elements of src/domain/good-prd-to-csl.py                     *)
(***************************************************************************)
GoodAttribute(prop) ==
    [name |-> prop.name, type |-> PropType(prop),
     constraints |-> Map(Strip, Tail(Split(prop.description, ",")))]

GoodBehavior(action) == [name |-> action.name, description |-> action.description]

GoodEntity(thing) ==
    [name        |-> thing.name,
     description |-> thing.description,
     attributes  |-> Map(GoodAttribute, thing.properties),
     invariants  |-> thing.rules,
     behaviors   |-> Map(GoodBehavior, thing.actions)]

\* one iteration of the loop "Entities and Aggregates"
GoodThing(d, thing) ==
    IF has_id(thing)
    THEN [d EXCEPT !.entities     = Append(@, GoodEntity(thing)),
                   !.aggregates   = Append(@, ThingAggregate(thing)),
                   !.repositories = Append(@, ThingRepository(thing))]
    ELSE d

RECURSIVE GoodThings(_, _, _)
GoodThings(d, things, i) ==
    IF i > Len(things) THEN d
    ELSE GoodThings(GoodThing(d, things[i]), things, i + 1)

GoodRole ==
    [name        |-> <<"R","o","l","e">>,
     description |-> <<"R","e","p","r","e","s","e","n","t","s"," ","a"," ","u","s","e","r"," ","r","o","l","e",".">>,
     attributes  |-> << [name |-> <<"n","a","m","e">>, type |-> <<"S","t","r","i","n","g">>] >>,
     invariants  |-> << <<"n","a","m","e"," ","m","u","s","t"," ","b","e"," ","A","d","m","i","n"," ","o","r"," ","R","e","g","u","l","a","r"," ","U","s","e","r">> >>,
     instances   |-> << [name |-> <<"A","d","m","i","n">>, description |-> <<"G","r","a","n","t","s"," ","a","d","d","/","r","e","m","o","v","e"," ","p","e","r","m","i","s","s","i","o","n","s">>],
                        [name |-> <<"R","e","g","u","l","a","r"," ","U","s","e","r">>, description |-> <<"G","r","a","n","t","s"," ","v","i","e","w"," ","p","e","r","m","i","s","s","i","o","n","s">>] >>]

\* the loop "Value Objects (e.g., Role)"
RECURSIVE GoodRoles(_, _, _, _)
GoodRoles(d, things, i, j) ==
    IF i > Len(things) THEN d
    ELSE IF j > Len(things[i].properties) THEN GoodRoles(d, things, i + 1, 1)
    ELSE IF Contains(Lower(things[i].properties[j].description), <<"l","i","s","t"," ","o","f"," ","r","o","l","e","s">>)
    THEN GoodRoles([d EXCEPT !.value_objects = Append(@, GoodRole)], things, i, j + 1)
    ELSE GoodRoles(d, things, i, j + 1)

GoodRule(who) ==
    IF Contains(Lower(who), <<"a","l","l"," ","u","s","e","r","s">>)
    THEN <<"T","r","u","e"," ","f","o","r"," ","A","d","m","i","n"," ","o","r"," ","R","e","g","u","l","a","r"," ","U","s","e","r"," ","r","o","l","e","s">>
    ELSE <<"T","r","u","e"," ","f","o","r"," ">> \o Replace(Upper(who), <<" ","O","N","L","Y">>, <<>>) \o <<" ","r","o","l","e">>

GoodPermission(op) ==
    [name        |-> <<"c","a","n">> \o Join(Map(Capitalize, SplitWords(op.name))),
     description |-> <<"C","h","e","c","k","s"," ","i","f"," ","a"," ","u","s","e","r"," ","c","a","n"," ">> \o Lower(op.name) \o <<".">>,
     rule        |-> GoodRule(op.who)]

GoodService(d, ops) ==
    IF ops # <<>>
    THEN [d EXCEPT !.domain_services = Append(@,
              [name        |-> <<"I","n","v","e","n","t","o","r","y","P","e","r","m","i","s","s","i","o","n","P","o","l","i","c","y">>,
               description |-> <<"M","a","n","a","g","e","s"," ","p","e","r","m","i","s","s","i","o","n","s"," ","f","o","r"," ","i","n","v","e","n","t","o","r","y"," ","o","p","e","r","a","t","i","o","n","s",".">>,
               behaviors   |-> Map(GoodPermission, ops)])]
    ELSE d

GoodEmptyModel(p) ==
    [bounded_context |-> IF SelectSeq(p.overview.business_area, IsWord) # <<>>
                         THEN SelectSeq(p.overview.business_area, IsWord)
                         ELSE <<"U","n","n","a","m","e","d","C","o","n","t","e","x","t">>,
     description     |-> p.overview.description,
     entities        |-> <<>>,
     value_objects   |-> <<>>,
     aggregates      |-> <<>>,
     domain_services |-> <<>>,
     domain_events   |-> <<>>,
     repositories    |-> <<>>,
     relationships   |-> p.connections]

good_infer_ddd_elements(p) ==
    LET d1 == GoodThings(GoodEmptyModel(p), p.things, 1)
        d2 == GoodRoles(d1, p.things, 1, 1)
        d3 == InferEvents(d2, p.operations, 1, 1)
    IN  GoodService(d3, p.operations)

\* the converter as __init__ leaves it
NewConverter == [output |-> <<>>, indent_level |-> 0, raised |-> FALSE]

\* the output file when it is not there, and one left by an earlier program
NoFile == [exists |-> FALSE, content |-> <<>>]
OldFile == [exists |-> TRUE, content |-> <<"B","o","u","n","d","e","d","C","o","n","t","e","x","t"," ","O","l","d"," ","{","\n","}","\n">>]

\* one argument naming a readable file, the output file writable and not there
NoEnvironment == [argv |-> 1, input |-> "readable", writable |-> TRUE, output |-> NoFile]

\* the exit code of a process that has not exited
Running == -1

(***************************************************************************)
(* Document Trees handed to infer_ddd_elements                             *)
(***************************************************************************)
MaxThings == 2      \* Things in a Document Tree
MaxProps == 2       \* properties in a Document Tree, over all its Things

\* Props and ThingHeads in a fixed order, to draw from by index
PropList == <<
    [name |-> <<"i","d">>,     description |-> <<"t","e","x","t",","," ","u","n","i","q","u","e",","," ","r","e","q","u","i","r","e","d">>],
    [name |-> <<"i","s","b","n">>,   description |-> <<"n","u","m","b","e","r",",","U","n","i","q","u","e">>],
    [name |-> <<"t","i","t","l","e">>,  description |-> <<"t","e","x","t",","," ","r","e","q","u","i","r","e","d">>],
    [name |-> <<"e","m","a","i","l">>,  description |-> <<"t","e","x","t",","," ","v","a","l","i","d"," ","e","m","a","i","l">>],
    [name |-> <<"a","c","c","e","s","s">>, description |-> <<"L","i","s","t"," ","o","f"," ","R","o","l","e","s",","," ","o","p","t","i","o","n","a","l">>],
    [name |-> <<"r","o","l","e","s">>,  description |-> <<"l","i","s","t"," ","o","f"," ","r","o","l","e","s",","," ","u","n","i","q","u","e">>] >>

HeadList == <<
    [name |-> <<"B","o","o","k">>, description |-> <<"A"," ","b","o","o","k">>,
     rules |-> << <<"T","i","t","l","e"," ","m","u","s","t"," ","b","e"," ","s","e","t">> >>,
     actions |-> << <<"A","d","d"," ","B","o","o","k",":"," ","A","d","d","s"," ","a"," ","b","o","o","k">>, <<"R","e","m","o","v","e"," ","B","o","o","k">> >>],
    [name |-> <<"R","o","l","e">>, description |-> <<"W","h","a","t"," ","a"," ","u","s","e","r"," ","m","a","y"," ","d","o">>,
     rules |-> <<>>, actions |-> <<>>] >>

\* the sequences of at most k property numbers
RECURSIVE PropChoices(_)
PropChoices(k) ==
    IF k = 0 THEN {<<>>}
    ELSE LET S == PropChoices(k - 1)
         IN  S \cup {Append(s, p) : s \in {x \in S : Len(x) = k - 1},
                                    p \in 1..Len(PropList)}

\* the sequences of at most n Things (a head number and property numbers each)
\* with at most k properties in all
RECURSIVE ThingChoices(_, _)
ThingChoices(n, k) ==
    IF n = 0 THEN {<<>>}
    ELSE {<<>>} \cup UNION { { << <<h, ps>> >> \o rest :
                                 h \in 1..Len(HeadList),
                                 rest \in ThingChoices(n - 1, k - Len(ps)) } :
                             ps \in PropChoices(k) }

MakeThing(c) ==
    [name |-> HeadList[c[1]].name, description |-> HeadList[c[1]].description,
     properties |-> [i \in 1..Len(c[2]) |-> PropList[c[2][i]]],
     rules |-> HeadList[c[1]].rules, actions |-> HeadList[c[1]].actions]

EmptyOverview == [description |-> <<>>, business_area |-> <<>>, importance |-> <<>>]

\* prd as parse_prd initialises it
EmptyTree ==
    [overview |-> EmptyOverview, key_terms |-> <<>>, features |-> <<>>, things |-> <<>>,
     operations |-> <<>>, connections |-> <<>>, constraints |-> <<>>]

LibraryOverview ==
    [description |-> <<"T","r","a","c","k","s"," ","b","o","o","k","s">>, business_area |-> <<"L","i","b","r","a","r","y"," ","M","a","n","a","g","e","m","e","n","t">>,
     importance |-> <<>>]

ThingTree(choice) ==
    [EmptyTree EXCEPT !.overview = LibraryOverview, !.things = Map(MakeThing, choice)]

MaxOps == 2         \* operations in a Document Tree
MaxNotifs == 2      \* notifications in a Document Tree, over all its operations

\* name, "who" and inputs of the operations
OpHeadList == <<
    [name |-> <<"A","d","d"," ","B","o","o","k">>,    who |-> <<"A","l","l"," ","U","s","e","r","s">>,
     inputs |-> << [name |-> <<"t","i","t","l","e">>, type |-> <<"t","e","x","t">>] >>],
    [name |-> <<"R","e","m","o","v","e"," ","B","o","o","k">>, who |-> <<"A","d","m","i","n"," ","O","n","l","y">>,
     inputs |-> << [name |-> <<"i","d">>, type |-> <<"t","e","x","t">>] >>],
    [name |-> <<"v","i","e","w"," ","s","t","o","c","k">>,  who |-> <<"A","d","m","i","n"," ","O","n","l","y",".">>, inputs |-> <<>>],
    [name |-> <<"A","u","d","i","t">>,       who |-> <<"O","n","l","y"," ","A","d","m","i","n">>,  inputs |-> <<>>] >>

NotifList == << <<"A"," ","b","o","o","k"," ","a","d","d","e","d">>, <<"D","o","n","e">> >>

\* the sequences of at most k notification numbers
RECURSIVE NotifChoices(_)
NotifChoices(k) ==
    IF k = 0 THEN {<<>>}
    ELSE LET S == NotifChoices(k - 1)
         IN  S \cup {Append(s, n) : s \in {x \in S : Len(x) = k - 1},
                                    n \in 1..Len(NotifList)}

\* the sequences of at most n operations (a head number and notification
\* numbers each) with at most k notifications in all
RECURSIVE OpChoices(_, _)
OpChoices(n, k) ==
    IF n = 0 THEN {<<>>}
    ELSE {<<>>} \cup UNION { { << <<h, ns>> >> \o rest :
                                 h \in 1..Len(OpHeadList),
                                 rest \in OpChoices(n - 1, k - Len(ns)) } :
                             ns \in NotifChoices(k) }

MakeOp(c) ==
    [name |-> OpHeadList[c[1]].name, description |-> <<>>, who |-> OpHeadList[c[1]].who,
     inputs |-> OpHeadList[c[1]].inputs, outputs |-> <<>>, conditions |-> <<>>,
     results |-> <<>>,
     notifications |-> [i \in 1..Len(c[2]) |-> NotifList[c[2][i]]]]

OpTree(choice) ==
    [EmptyTree EXCEPT !.overview = LibraryOverview, !.operations = Map(MakeOp, choice)]

NoModel == EmptyModel(EmptyTree)

(***************************************************************************)
(* The stages as actions                                                   *)
(***************************************************************************)
\* ddd = infer_ddd_elements(prd)
Infer ==
    /\ pc = "parsed"
    /\ ddd' = infer_ddd_elements(prd)
    /\ prd' = TreeAfterInfer(prd)
    /\ pc' = "inferred"
    /\ UNCHANGED <<csl, text, cur, env, exit, run, first, tsp>>

InitInfer ==
    /\ pc = "parsed"
    /\ \/ \E choice \in ThingChoices(MaxThings, MaxProps) : prd = ThingTree(choice)
       \/ \E choice \in OpChoices(MaxOps, MaxNotifs) : prd = OpTree(choice)
    /\ ddd = NoModel
    /\ csl = NoFile
    /\ text = <<>>
    /\ cur = StartOfFile
    /\ env = NoEnvironment
    /\ exit = Running
    /\ run = 1
    /\ first = <<>>
    /\ tsp = NewConverter

NextInfer == Infer

SpecInfer == InitInfer /\ [][NextInfer]_vars

(***************************************************************************)
(* PRD files read by the line-based parse_prd                              *)
(***************************************************************************)
MaxBlocks == 3      \* blocks of lines after the section header of a PRD file

ThingLines == <<
    <<"-"," ","B","o","o","k",":"," ","A"," ","b","o","o","k">>,
    <<"-"," ","M","e","m","b","e","r",":"," ","A"," ","m","e","m","b","e","r">>,
    <<"#","#"," ","P","r","o","p","e","r","t","i","e","s",":">>,
    <<"-"," ","t","i","t","l","e",":"," ","t","e","x","t",","," ","r","e","q","u","i","r","e","d">>,
    <<" "," ","-"," ","i","d",":"," ","t","e","x","t",","," ","u","n","i","q","u","e",","," ","r","e","q","u","i","r","e","d">>,
    <<"#","#"," ","A","c","t","i","o","n","s",":">>,
    <<"-"," ","A","d","d"," ","B","o","o","k",":"," ","A","d","d","s"," ","a"," ","b","o","o","k">>,
    <<"#","#"," ","R","u","l","e","s",":">>,
    <<"-"," ","T","i","t","l","e"," ","m","u","s","t"," ","b","e"," ","s","e","t">> >>

\* a Thing bullet, a subsection with its items, or a Thing bullet followed by
\* a subsection, as numbers of ThingLines
ThingBlocks == << <<1>>, <<2>>, <<3, 4, 5>>, <<3, 5>>, <<6, 7>>, <<8, 9>>, <<2, 8, 9>> >>

\* the sequences of at most n block numbers
RECURSIVE BlockChoices(_, _)
BlockChoices(n, blocks) ==
    IF n = 0 THEN {<<>>}
    ELSE LET S == BlockChoices(n - 1, blocks)
         IN  S \cup {Append(s, b) : s \in {x \in S : Len(x) = n - 1},
                                    b \in 1..Len(blocks)}

\* the lines of a block, each with its line end
RECURSIVE BlockText(_, _)
BlockText(lines, block) ==
    IF block = <<>> THEN <<>>
    ELSE lines[Head(block)] \o <<"\n">> \o BlockText(lines, Tail(block))

RECURSIVE BlocksText(_, _, _)
BlocksText(lines, blocks, choice) ==
    IF choice = <<>> THEN <<>>
    ELSE BlockText(lines, blocks[Head(choice)]) \o BlocksText(lines, blocks, Tail(choice))

ThingsFile(choice) ==
    <<"#"," ","S","e","c","t","i","o","n",":"," ","T","h","i","n","g","s","\n">> \o BlocksText(ThingLines, ThingBlocks, choice)

SectionLines == <<
    <<"#"," ","S","e","c","t","i","o","n",":"," ","O","v","e","r","v","i","e","w">>,
    <<"-"," ","P","r","o","d","u","c","t"," ","D","e","s","c","r","i","p","t","i","o","n",":"," ","T","r","a","c","k","s"," ","b","o","o","k","s">>,
    <<"-"," ","B","u","s","i","n","e","s","s"," ","A","r","e","a",":"," ","L","i","b","r","a","r","y"," ","M","a","n","a","g","e","m","e","n","t">>,
    <<"#"," ","S","e","c","t","i","o","n",":"," ","K","e","y"," ","T","e","r","m","s">>,
    <<"-"," ","B","o","o","k",":"," ","A"," ","b","o","u","n","d"," ","t","e","x","t">>,
    <<"-"," ","S","h","e","l","f">>,
    <<"#"," ","S","e","c","t","i","o","n",":"," ","O","p","e","r","a","t","i","o","n","s">>,
    <<"#","#"," ","A","d","d"," ","B","o","o","k">>,
    <<"-"," ","D","e","s","c","r","i","b","e"," ","w","h","a","t"," ","t","h","e"," ","a","c","t","i","o","n"," ","d","o","e","s",":"," ","A","d","d","s"," ","a"," ","b","o","o","k">>,
    <<"-"," ","W","h","o"," ","C","a","n"," ","D","o"," ","I","t",":"," ","A","l","l"," ","U","s","e","r","s">>,
    <<"#","#"," ","R","e","m","o","v","e"," ","B","o","o","k">>,
    <<"-"," ","W","h","o"," ","C","a","n"," ","D","o"," ","I","t",":"," ","A","d","m","i","n"," ","O","n","l","y">>,
    <<"-"," ","I","n","p","u","t","s",":"," ","l","i","s","t">>,
    <<" "," ","-"," ","t","i","t","l","e",":"," ","t","e","x","t">>,
    <<"-"," ","O","u","t","p","u","t","s",":"," ","A"," ","b","o","o","k">>,
    <<"-"," ","N","o","t","i","f","i","c","a","t","i","o","n","s",":"," ","A"," ","b","o","o","k"," ","a","d","d","e","d">>,
    <<" "," ","-"," ","D","o","n","e"," ","n","o","w">>,
    <<"-"," ","C","o","n","d","i","t","i","o","n","s",":"," ","N","o","n","e">>,
    <<"-"," ","R","e","s","u","l","t","s",":"," ","S","t","o","r","e","d">>,
    <<"#","#">> >>

\* a section with its first lines, more lines of an operation, or an
\* operation header without a name
SectionBlocks ==
    << <<1, 2, 3>>, <<4, 5, 6>>, <<7, 8, 9, 10>>, <<11, 12>>, <<13, 14>>,
       <<15, 16, 17>>, <<18, 19>>, <<20, 10>> >>

SectionsFile(choice) == BlocksText(SectionLines, SectionBlocks, choice)

\* with open(file_path) as f: lines = f.readlines()
ReadFile ==
    /\ pc = "opening"
    /\ cur' = [cur EXCEPT !.lines = ReadLines(text)]
    /\ pc' = "reading"
    /\ UNCHANGED <<prd, ddd, csl, text, env, exit, run, first, tsp>>

\* one turn of `for line in lines:`
ReadLine ==
    /\ pc = "reading"
    /\ cur.i <= Len(cur.lines)
    /\ LET st == GoodLine([prd |-> prd, section |-> cur.section, thing |-> cur.thing,
                           op |-> cur.op, subsection |-> cur.subsection],
                          cur.lines[cur.i])
       IN  /\ prd' = st.prd
           /\ cur' = [lines |-> cur.lines, i |-> cur.i + 1, section |-> st.section,
                      thing |-> st.thing, op |-> st.op, subsection |-> st.subsection]
    /\ UNCHANGED <<pc, ddd, csl, text, env, exit, run, first, tsp>>

\* the loop is over: return prd
EndOfFile ==
    /\ pc = "reading"
    /\ cur.i > Len(cur.lines)
    /\ pc' = "read"
    /\ UNCHANGED <<prd, ddd, csl, text, cur, env, exit, run, first, tsp>>

\* ddd = infer_ddd_elements(prd) of good-prd-to-csl.py
GoodInfer ==
    /\ pc = "read"
    /\ ddd' = good_infer_ddd_elements(prd)
    /\ pc' = "good_inferred"
    /\ UNCHANGED <<prd, csl, text, cur, env, exit, run, first, tsp>>

InitLine ==
    /\ pc = "opening"
    /\ \/ \E choice \in BlockChoices(MaxBlocks, ThingBlocks) : text = ThingsFile(choice)
       \/ \E choice \in BlockChoices(MaxBlocks, SectionBlocks) : text = SectionsFile(choice)
    /\ prd = EmptyTree
    /\ ddd = NoModel
    /\ csl = NoFile
    /\ cur = StartOfFile
    /\ env = NoEnvironment
    /\ exit = Running
    /\ run = 1
    /\ first = <<>>
    /\ tsp = NewConverter

NextLine == ReadFile \/ ReadLine \/ EndOfFile \/ GoodInfer

SpecLine == InitLine /\ [][NextLine]_vars

(***************************************************************************)
(* parse_prd of src/domain/xyz/final-prd-to-csl.py                         *)
(***************************************************************************)
Max(S) == CHOOSE x \in S : \A y \in S : x >= y

\* the least element of a set of positions of s, Len(s) + 1 (the place of \Z)
\* when there is none
FirstAt(S, s) == IF S = {} THEN Len(s) + 1 ELSE Min(S)

\* MatchAt under re.IGNORECASE, sub given in lower case
MatchAtCI(s, sub, i) ==
    /\ i >= 1
    /\ i + Len(sub) - 1 <= Len(s)
    /\ \A k \in 1..Len(sub) : LowerChar(s[i + k - 1]) = sub[k]

\* Find under re.IGNORECASE, sub given in lower case
FindCI(s, sub, from) ==
    LET hits == {i \in from..(Len(s) - Len(sub) + 1) : MatchAtCI(s, sub, i)}
    IN  IF hits = {} THEN 0 ELSE Min(hits)

\* where r'\n\s*\n+' matched at p ends: after the last line end of the
\* whitespace that follows the line end at p; 0 when it does not match
BlankLinesEnd(s, p) ==
    LET nls == {k \in (p + 1)..(SkipSpaces(s, p + 1) - 1) : s[k] = "\n"}
    IN  IF MatchAt(s, <<"\n">>, p) /\ nls # {} THEN Max(nls) + 1 ELSE 0

\* re.sub(r'\n\s*\n+', '\n', s) from position p on
RECURSIVE SquashBlankLines(_, _)
SquashBlankLines(s, p) ==
    LET m == FirstAt({k \in p..Len(s) : BlankLinesEnd(s, k) # 0}, s)
    IN  IF m > Len(s) THEN SubSeq(s, p, Len(s))
        ELSE SubSeq(s, p, m) \o SquashBlankLines(s, BlankLinesEnd(s, m))

\* re.sub(r'\t+', '  ', s) from position p on
RECURSIVE TabsToSpaces(_, _)
TabsToSpaces(s, p) ==
    LET m == FirstAt({k \in p..Len(s) : s[k] = "\t"}, s)
    IN  IF m > Len(s) THEN SubSeq(s, p, Len(s))
        ELSE SubSeq(s, p, m - 1) \o <<" ", " ">>
                 \o TabsToSpaces(s, FirstAt({k \in m..Len(s) : s[k] # "\t"}, s))

\* the two statements under "Normalize content"
Normalize(content) == TabsToSpaces(SquashBlankLines(Strip(content), 1), 1)

NoSection == [end |-> 0, name |-> <<>>]

\* r'#+\s*(?:Section:\s*)?(\w+(?:\s+\w+)?)' with re.IGNORECASE matched at p:
\* the index after the match and group(1); end = 0 when it does not match.
\* When no name follows "Section:", the optional group is given up and
\* "Section" itself is the name.
SectionAt(s, p) ==
    IF ~MatchAt(s, <<"#">>, p) THEN NoSection
    ELSE LET j == SkipSpaces(s, FirstAt({h \in p..Len(s) : s[h] # "#"}, s))
             k == SkipSpaces(s, j + 8)
         IN  IF MatchAtCI(s, <<"s","e","c","t","i","o","n",":">>, j) /\ NameEnd(s, k) # 0
             THEN [end |-> NameEnd(s, k), name |-> SubSeq(s, k, NameEnd(s, k) - 1)]
             ELSE IF NameEnd(s, j) # 0
             THEN [end |-> NameEnd(s, j), name |-> SubSeq(s, j, NameEnd(s, j) - 1)]
             ELSE NoSection

\* the positions of s where the section pattern matches
Markers(s) == {k \in 1..Len(s) : SectionAt(s, k).end # 0}

\* re.split of the section pattern from position p on, M the positions where
\* it matches: the text before the next marker, then the name of the marker
\* and the split of what follows it
RECURSIVE SplitAtMarkers(_, _, _)
SplitAtMarkers(s, M, p) ==
    LET m == FirstAt({k \in M : k >= p}, s)
    IN  IF m > Len(s) THEN << SubSeq(s, p, Len(s)) >>
        ELSE << SubSeq(s, p, m - 1), SectionAt(s, m).name >>
                 \o SplitAtMarkers(s, M, SectionAt(s, m).end)

\* re.split(r'#+\s*(?:Section:\s*)?(\w+(?:\s+\w+)?)', s, flags=re.IGNORECASE)
SplitSections(s) == SplitAtMarkers(s, Markers(s), 1)

\* [(sections[i].strip(), sections[i+1].strip()) for i in range(1, len(sections), 2)]
section_pairs(sections) ==
    [i \in 1..((Len(sections) - 1) \div 2) |->
        [name |-> Strip(sections[2 * i]), content |-> Strip(sections[2 * i + 1])]]

\* re.search(label + r'(.*?)(?=(?:stop|\Z))', content, re.DOTALL | re.IGNORECASE):
\* group(1).strip(), '' when the label is not found; label and stop in lower
\* case, stop = <<>> for the pattern that ends in (?=\Z)
LabelField(content, label, stop) ==
    LET p     == FindCI(content, label, 1)
        start == p + Len(label)
        q     == IF stop = <<>> THEN 0 ELSE FindCI(content, stop, start)
    IN  IF p = 0 THEN <<>>
        ELSE Strip(SubSeq(content, start, IF q = 0 THEN Len(content) ELSE q - 1))

\* the overview branch
ParseOverview(content) ==
    [description   |-> LabelField(content, <<"-"," ","p","r","o","d","u","c","t"," ","d","e","s","c","r","i","p","t","i","o","n",":"," ">>, <<"-"," ","b","u","s","i","n","e","s","s"," ","a","r","e","a",":">>),
     business_area |-> LabelField(content, <<"-"," ","b","u","s","i","n","e","s","s"," ","a","r","e","a",":"," ">>, <<"-"," ","i","m","p","o","r","t","a","n","c","e",":">>),
     importance    |-> LabelField(content, <<"-"," ","i","m","p","o","r","t","a","n","c","e",":"," ">>, <<>>)]

\* r'- \w+:' matched at q: the index of the colon, 0 when it does not match
BulletWordEnd(s, q) ==
    IF MatchAt(s, <<"-", " ">>, q) /\ WordEnd(s, q + 2) >= q + 2
         /\ MatchAt(s, <<":">>, WordEnd(s, q + 2) + 1)
    THEN WordEnd(s, q + 2) + 1
    ELSE 0

\* r'- \w+: ' matched at q: the index of the colon, 0 when it does not match
TermAt(s, q) ==
    IF BulletWordEnd(s, q) # 0 /\ MatchAt(s, <<" ">>, BulletWordEnd(s, q) + 1)
    THEN BulletWordEnd(s, q)
    ELSE 0

\* re.findall(r'- (\w+): (.*?)(?=(?:- \w+: |\Z))', s, re.DOTALL) from p on,
\* name and description stripped
RECURSIVE KeyTerms(_, _)
KeyTerms(s, p) ==
    LET m == FirstAt({k \in p..Len(s) : TermAt(s, k) # 0}, s)
        c == TermAt(s, m)
        q == FirstAt({k \in (c + 2)..Len(s) : TermAt(s, k) # 0}, s)
    IN  IF m > Len(s) THEN <<>>
        ELSE << [name |-> Strip(SubSeq(s, m + 2, c - 1)),
                 description |-> Strip(SubSeq(s, c + 2, q - 1))] >> \o KeyTerms(s, q)

\* re.findall(r'- (.*?): (.*?)(?=(?:- |\Z))', s, re.DOTALL) from p on, name and
\* description stripped; with hash, the lookahead (?=(?:- |(?:#|\Z))) of features
RECURSIVE NamedItems(_, _, _)
NamedItems(s, p, hash) ==
    LET d == Find(s, <<"-", " ">>, p)
        c == IF d = 0 THEN 0 ELSE Find(s, <<":", " ">>, d + 2)
        q == FirstAt({k \in (c + 2)..Len(s) :
                         MatchAt(s, <<"-", " ">>, k) \/ (hash /\ s[k] = "#")}, s)
    IN  IF d = 0 \/ c = 0 THEN <<>>
        ELSE << [name |-> Strip(SubSeq(s, d + 2, c - 1)),
                 description |-> Strip(SubSeq(s, c + 2, q - 1))] >> \o NamedItems(s, q, hash)

\* re.findall(r'- (.*?)(?=(?:- |\Z))', s, re.DOTALL) from p on, stripped
RECURSIVE PlainItems(_, _)
PlainItems(s, p) ==
    LET d == Find(s, <<"-", " ">>, p)
        q == FirstAt({k \in (d + 2)..Len(s) : MatchAt(s, <<"-", " ">>, k)}, s)
    IN  IF d = 0 THEN <<>>
        ELSE << Strip(SubSeq(s, d + 2, q - 1)) >> \o PlainItems(s, q)

\* r'^- (\w+):' with re.MULTILINE matched at p: the index of the colon, or 0
ThingAt(s, p) ==
    IF p = 1 \/ MatchAt(s, <<"\n">>, p - 1) THEN BulletWordEnd(s, p) ELSE 0

\* re.split(r'^- (\w+):', s, flags=re.MULTILINE) from position p on
RECURSIVE SplitThings(_, _)
SplitThings(s, p) ==
    LET m == FirstAt({k \in p..Len(s) : ThingAt(s, k) # 0}, s)
    IN  IF m > Len(s) THEN << SubSeq(s, p, Len(s)) >>
        ELSE << SubSeq(s, p, m - 1), SubSeq(s, m + 2, ThingAt(s, m) - 1) >>
                 \o SplitThings(s, ThingAt(s, m) + 1)

\* [(things[i], things[i+1]) for i in range(1, len(things), 2) if things[i+1].strip()]
PrimaryThings(parts) ==
    LET all == [i \in 1..((Len(parts) - 1) \div 2) |->
                    [name |-> parts[2 * i], content |-> parts[2 * i + 1]]]
    IN  SelectSeq(all, LAMBDA t : Strip(t.content) # <<>>)

\* re.findall(r'^- (\w+): (.*?)(?=(?:- \w+:|\Z))', s, re.DOTALL | re.MULTILINE)
\* from p on, the content stripped
RECURSIVE FallbackThings(_, _)
FallbackThings(s, p) ==
    LET m == FirstAt({k \in p..Len(s) : ThingAt(s, k) # 0 /\ TermAt(s, k) # 0}, s)
        c == TermAt(s, m)
        q == FirstAt({k \in (c + 2)..Len(s) : BulletWordEnd(s, k) # 0}, s)
    IN  IF m > Len(s) THEN <<>>
        ELSE << [name |-> SubSeq(s, m + 2, c - 1),
                 content |-> Strip(SubSeq(s, c + 2, q - 1))] >> \o FallbackThings(s, q)

\* r'-\s*(\w+):' matched at p: the index of the colon, 0 when it does not match
DashNameAt(s, p) ==
    LET w == SkipSpaces(s, p + 1)
    IN  IF MatchAt(s, <<"-">>, p) /\ WordEnd(s, w) >= w /\ MatchAt(s, <<":">>, WordEnd(s, w) + 1)
        THEN WordEnd(s, w) + 1
        ELSE 0

\* re.findall(r'-\s*(\w+):\s*(.*?)(?=(?:- \w+:|\Z))', s, re.DOTALL) from p on,
\* name and description stripped; with hash, the lookahead (?=(?:- \w+:|##|\Z))
RECURSIVE PropLines(_, _, _)
PropLines(s, p, hash) ==
    LET m     == FirstAt({k \in p..Len(s) : DashNameAt(s, k) # 0}, s)
        c     == DashNameAt(s, m)
        start == SkipSpaces(s, c + 1)
        q     == FirstAt({k \in start..Len(s) :
                             \/ BulletWordEnd(s, k) # 0
                             \/ (hash /\ MatchAt(s, <<"#", "#">>, k))}, s)
    IN  IF m > Len(s) THEN <<>>
        ELSE << [name |-> Strip(SubSeq(s, SkipSpaces(s, m + 1), c - 1)),
                 description |-> Strip(SubSeq(s, start, q - 1))] >> \o PropLines(s, q, hash)

\* re.findall(r'-\s*(.*?)(?=(?:- |\Z))', s, re.DOTALL) from p on; with
\* fallback, the lookahead (?=(?:- \w+:|##|\Z))
RECURSIVE DashLines(_, _, _)
DashLines(s, p, fallback) ==
    LET d     == Find(s, <<"-">>, p)
        start == SkipSpaces(s, d + 1)
        q     == FirstAt({k \in start..Len(s) :
                             IF fallback
                             THEN BulletWordEnd(s, k) # 0 \/ MatchAt(s, <<"#", "#">>, k)
                             ELSE MatchAt(s, <<"-", " ">>, k)}, s)
    IN  IF d = 0 THEN <<>>
        ELSE << SubSeq(s, start, q - 1) >> \o DashLines(s, q, fallback)

\* re.search(label + r'\s*((?:-.*?)+?)(?=(?:##|\Z))', s, re.DOTALL): group(1),
\* found = FALSE without a match; with named, the group must begin with
\* r'- \w+:' as in the pattern of "## Properties:"
Subsection(s, label, named) ==
    LET hits == {p \in 1..Len(s) :
                    /\ MatchAt(s, label, p)
                    /\ LET a == SkipSpaces(s, p + Len(label))
                       IN  IF named THEN BulletWordEnd(s, a) # 0 ELSE MatchAt(s, <<"-">>, a)}
        a    == SkipSpaces(s, Min(hits) + Len(label))
        q    == FirstAt({k \in (a + 1)..Len(s) : MatchAt(s, <<"#", "#">>, k)}, s)
    IN  IF hits = {} THEN [found |-> FALSE, group |-> <<>>]
        ELSE [found |-> TRUE, group |-> SubSeq(s, a, q - 1)]

NonBlank(seq) == SelectSeq(seq, LAMBDA r : Strip(r) # <<>>)

\* "Extract properties"
ThingProperties(thing_content) ==
    LET prop_section == Subsection(thing_content, <<"#","#"," ","P","r","o","p","e","r","t","i","e","s",":">>, TRUE)
    IN  IF prop_section.found THEN PropLines(prop_section.group, 1, FALSE)
        ELSE SelectSeq(PropLines(thing_content, 1, TRUE),
                       LAMBDA p : /\ ~Contains(Lower(p.description), <<"m","u","s","t">>)
                                  /\ ~Contains(Lower(p.description), <<"n","e","e","d","s">>))

\* "Extract rules" (label "## Rules:", word "must") and "Extract actions"
\* (label "## Actions:", word "needs")
ThingItems(thing_content, label, word) ==
    LET section == Subsection(thing_content, label, FALSE)
    IN  IF section.found THEN Map(Strip, NonBlank(DashLines(section.group, 1, FALSE)))
        ELSE Map(Strip, SelectSeq(NonBlank(DashLines(thing_content, 1, TRUE)),
                                  LAMBDA r : Contains(Lower(r), word)))

\* the body of `for thing_name, thing_content in things:`
ParseThing(t) ==
    LET i == Find(t.content, <<"#","#"," ","P","r","o","p","e","r","t","i","e","s",":">>, 1)
    IN  [name        |-> Strip(t.name),
         description |-> Strip(SubSeq(t.content, 1, IF i = 0 THEN Len(t.content) ELSE i - 1)),
         properties  |-> ThingProperties(t.content),
         rules       |-> ThingItems(t.content, <<"#","#"," ","R","u","l","e","s",":">>, <<"m","u","s","t">>),
         actions     |-> ThingItems(t.content, <<"#","#"," ","A","c","t","i","o","n","s",":">>, <<"n","e","e","d","s">>)]

\* the things branch: the Things of one section
ParseThings(content) ==
    LET primary == PrimaryThings(SplitThings(content, 1))
    IN  Map(ParseThing, IF primary # <<>> THEN primary ELSE FallbackThings(content, 1))

\* r'##\s*([^#]+?)\n(?=(?:-|\Z))' matched at p: where the name starts and the
\* index of the line end that closes it, or start = 0.  \s* takes all the
\* whitespace it can and gives it back one character at a time until a name
\* without # ends in a line end that is followed by - or by the end of s.
OpAt(s, p) ==
    LET a      == SkipSpaces(s, p + 2)
        Ends(b) == {e \in (b + 1)..Len(s) :
                      /\ s[e] = "\n"
                      /\ (e = Len(s) \/ s[e + 1] = "-")
                      /\ \A j \in b..(e - 1) : s[j] # "#"}
        starts == {b \in (p + 2)..Min({a, Len(s)}) : Ends(b) # {}}
    IN  IF ~MatchAt(s, <<"#", "#">>, p) \/ starts = {} THEN [start |-> 0, end |-> 0]
        ELSE [start |-> Max(starts), end |-> Min(Ends(Max(starts)))]

\* re.split(r'##\s*([^#]+?)\n(?=(?:-|\Z))', s, flags=re.DOTALL) from position p on
RECURSIVE SplitOps(_, _)
SplitOps(s, p) ==
    LET m == FirstAt({k \in p..Len(s) : OpAt(s, k).start # 0}, s)
    IN  IF m > Len(s) THEN << SubSeq(s, p, Len(s)) >>
        ELSE << SubSeq(s, p, m - 1), SubSeq(s, OpAt(s, m).start, OpAt(s, m).end - 1) >>
                 \o SplitOps(s, OpAt(s, m).end + 1)

\* [(ops[i].strip(), ops[i+1].strip()) for i in range(1, len(ops), 2) if ops[i+1].strip()]
OpPairs(parts) ==
    LET all == [i \in 1..((Len(parts) - 1) \div 2) |->
                    [name |-> Strip(parts[2 * i]), content |-> Strip(parts[2 * i + 1])]]
    IN  SelectSeq(all, LAMBDA o : o.content # <<>>)

\* r'- \w+: \w+\n' matched at a: the index after it, 0 when it does not match
InputLineEnd(s, a) ==
    LET c == BulletWordEnd(s, a)
        e == WordEnd(s, c + 2)
    IN  IF c # 0 /\ MatchAt(s, <<" ">>, c + 1) /\ e >= c + 2 /\ MatchAt(s, <<"\n">>, e + 1)
        THEN e + 2
        ELSE 0

\* where the greedy (?:- \w+: \w+\n)+ started at a ends (a when no line matches)
RECURSIVE InputLinesEnd(_, _)
InputLinesEnd(s, a) ==
    IF InputLineEnd(s, a) = 0 THEN a ELSE InputLinesEnd(s, InputLineEnd(s, a))

\* re.search(r'- Inputs:\s*((?:- \w+: \w+\n)+)', s, re.DOTALL): group(1), <<>>
\* without a match
InputsSection(s) ==
    LET hits == {p \in 1..Len(s) :
                    /\ MatchAt(s, <<"-"," ","I","n","p","u","t","s",":">>, p)
                    /\ InputLineEnd(s, SkipSpaces(s, p + 9)) # 0}
        a    == SkipSpaces(s, Min(hits) + 9)
    IN  IF hits = {} THEN <<>> ELSE SubSeq(s, a, InputLinesEnd(s, a) - 1)

\* r'-\s*(\w+):\s*(\w+)' matched at p: the index of the last character of the
\* match, 0 when it does not match
InputPairEnd(s, p) ==
    LET c == DashNameAt(s, p)
        t == SkipSpaces(s, c + 1)
    IN  IF c # 0 /\ WordEnd(s, t) >= t THEN WordEnd(s, t) ELSE 0

\* re.findall(r'-\s*(\w+):\s*(\w+)', s) from p on, as name and type
RECURSIVE InputPairs(_, _)
InputPairs(s, p) ==
    LET m == FirstAt({k \in p..Len(s) : InputPairEnd(s, k) # 0}, s)
        c == DashNameAt(s, m)
        e == InputPairEnd(s, m)
    IN  IF m > Len(s) THEN <<>>
        ELSE << [name |-> SubSeq(s, SkipSpaces(s, m + 1), c - 1),
                 type |-> SubSeq(s, SkipSpaces(s, c + 1), e)] >> \o InputPairs(s, e + 1)

\* re.findall(label + r'\s*- (.*?)(?=(?:- |\Z))', s, re.DOTALL) from p on, stripped
RECURSIVE Listed(_, _, _)
Listed(s, label, p) ==
    LET hits == {h \in p..Len(s) :
                    /\ MatchAt(s, label, h)
                    /\ MatchAt(s, <<"-", " ">>, SkipSpaces(s, h + Len(label)))}
        start == SkipSpaces(s, Min(hits) + Len(label)) + 2
        q     == FirstAt({k \in start..Len(s) : MatchAt(s, <<"-", " ">>, k)}, s)
    IN  IF hits = {} THEN <<>>
        ELSE << Strip(SubSeq(s, start, q - 1)) >> \o Listed(s, label, q)

\* the body of `for op_name, op_content in ops:`
ParseOperation(o) ==
    [name          |-> Strip(o.name),
     description   |-> LabelField(o.content, <<"-"," ","d","e","s","c","r","i","b","e"," ","w","h","a","t"," ","t","h","e"," ","a","c","t","i","o","n"," ","d","o","e","s",":"," ">>, <<"-"," ","w","h","o"," ","c","a","n"," ","d","o"," ","i","t",":">>),
     who           |-> LabelField(o.content, <<"-"," ","w","h","o"," ","c","a","n"," ","d","o"," ","i","t",":"," ">>, <<"-"," ","i","n","p","u","t","s",":">>),
     inputs        |-> InputPairs(InputsSection(o.content), 1),
     outputs       |-> LabelField(o.content, <<"-"," ","o","u","t","p","u","t","s",":"," ">>, <<"-"," ","c","o","n","d","i","t","i","o","n","s",":">>),
     conditions    |-> Listed(o.content, <<"-"," ","C","o","n","d","i","t","i","o","n","s",":">>, 1),
     results       |-> LabelField(o.content, <<"-"," ","r","e","s","u","l","t","s",":"," ">>, <<"-"," ","n","o","t","i","f","i","c","a","t","i","o","n","s",":">>),
     notifications |-> Listed(o.content, <<"-"," ","N","o","t","i","f","i","c","a","t","i","o","n","s",":">>, 1)]

\* the operations branch: the operations of one section
ParseOperations(content) == Map(ParseOperation, OpPairs(SplitOps(content, 1)))

\* one turn of `for section_name, section_content in section_pairs:`
ParseSection(p, pair) ==
    LET section_name == Replace(Lower(pair.name), <<" ">>, <<"_">>)
    IN  IF section_name = <<"o","v","e","r","v","i","e","w">>
        THEN [p EXCEPT !.overview = ParseOverview(pair.content)]
        ELSE IF section_name = <<"k","e","y","_","t","e","r","m","s">>
        THEN [p EXCEPT !.key_terms = KeyTerms(pair.content, 1)]
        ELSE IF section_name = <<"f","e","a","t","u","r","e","s">>
        THEN [p EXCEPT !.features = NamedItems(pair.content, 1, TRUE)]
        ELSE IF section_name = <<"t","h","i","n","g","s">>
        THEN [p EXCEPT !.things = @ \o ParseThings(pair.content)]
        ELSE IF section_name = <<"o","p","e","r","a","t","i","o","n","s">>
        THEN [p EXCEPT !.operations = @ \o ParseOperations(pair.content)]
        ELSE IF section_name = <<"c","o","n","n","e","c","t","i","o","n","s">>
        THEN [p EXCEPT !.connections = NamedItems(pair.content, 1, FALSE)]
        ELSE IF section_name = <<"c","o","n","s","t","r","a","i","n","t","s">>
        THEN [p EXCEPT !.constraints = PlainItems(pair.content, 1)]
        ELSE p

RECURSIVE ParseSections(_, _, _)
ParseSections(p, pairs, i) ==
    IF i > Len(pairs) THEN p
    ELSE ParseSections(ParseSection(p, pairs[i]), pairs, i + 1)

\* parse_prd with the text before the first marker kept as the description
parse_prd_Preamble(content) ==
    LET sections == SplitSections(Normalize(content))
    IN  ParseSections([EmptyTree EXCEPT !.overview.description = Strip(sections[1])],
                      section_pairs(sections), 1)

\* parse_prd on the content read from the file
parse_prd(content) ==
    LET sections == SplitSections(Normalize(content))
    IN  IF Len(sections) < 2 THEN EmptyTree
        ELSE ParseSections(EmptyTree, section_pairs(sections), 1)

(***************************************************************************)
(* generate_csl of src/domain/xyz/final-prd-to-csl.py                      *)
(***************************************************************************)
DigitChars == <<"0", "1", "2", "3", "4", "5", "6", "7", "8", "9">>

\* str(n) for n >= 0, as the f-string of I{i} formats it
RECURSIVE Decimal(_)
Decimal(n) ==
    IF n < 10 THEN << DigitChars[n + 1] >>
    ELSE Decimal(n \div 10) \o << DigitChars[(n % 10) + 1] >>

\* f"      {attr['name']}: {attr['type']}\n"
AttributeLine(attr) == <<" "," "," "," "," "," ">> \o attr.name \o <<":"," ">> \o attr.type \o <<"\n">>

\* the attributes sub-block
AttributesBlock(attrs) ==
    <<" "," "," "," ","a","t","t","r","i","b","u","t","e","s",":"," ","{","\n">> \o Join(Map(AttributeLine, attrs)) \o <<" "," "," "," ","}","\n">>

\* the invariants sub-block, its lines numbered from I1
InvariantsBlock(invs) ==
    <<" "," "," "," ","i","n","v","a","r","i","a","n","t","s",":"," ","{","\n">>
    \o Join([i \in 1..Len(invs) |-> <<" "," "," "," "," "," ","I">> \o Decimal(i) \o <<":"," ","\"">> \o invs[i] \o <<"\"","\n">>])
    \o <<" "," "," "," ","}","\n">>

\* f"      {x['name']}: \"{x['description']}\"\n", of a behavior or an instance
DescribedLine(x) == <<" "," "," "," "," "," ">> \o x.name \o <<":"," ","\"">> \o x.description \o <<"\"","\n">>

DescriptionLine(description) == <<" "," "," "," ","d","e","s","c","r","i","p","t","i","o","n",":"," ","\"">> \o description \o <<"\"","\n">>

AggregateBlock(agg) ==
    <<" "," ","A","g","g","r","e","g","a","t","e"," ">> \o agg.name \o <<" ","{","\n">>
    \o DescriptionLine(<<"R","e","p","r","e","s","e","n","t","s"," ","a"," ">> \o Lower(agg.name) \o <<".">>)
    \o <<" "," "," "," ","r","o","o","t",":"," ">> \o agg.root \o <<"\n">>
    \o <<" "," ","}","\n","\n">>

EntityBlock(entity) ==
    <<" "," ","E","n","t","i","t","y"," ">> \o entity.name \o <<" ","{","\n">>
    \o DescriptionLine(entity.description)
    \o AttributesBlock(entity.attributes)
    \o InvariantsBlock(entity.invariants)
    \o <<" "," "," "," ","b","e","h","a","v","i","o","r","s",":"," ","{","\n">> \o Join(Map(DescribedLine, entity.behaviors)) \o <<" "," "," "," ","}","\n">>
    \o <<" "," ","}","\n","\n">>

ValueObjectBlock(vo) ==
    <<" "," ","V","a","l","u","e","O","b","j","e","c","t"," ">> \o vo.name \o <<" ","{","\n">>
    \o DescriptionLine(vo.description)
    \o AttributesBlock(vo.attributes)
    \o InvariantsBlock(vo.invariants)
    \o (IF vo.instances # <<>>
        THEN <<" "," "," "," ","i","n","s","t","a","n","c","e","s",":"," ","{","\n">> \o Join(Map(DescribedLine, vo.instances)) \o <<" "," "," "," ","}","\n">>
        ELSE <<>>)
    \o <<" "," ","}","\n","\n">>

ServiceBehaviorLines(beh) ==
    <<" "," "," "," "," "," ">> \o beh.name \o <<":"," ","B","o","o","l","e","a","n","\n">>
    \o <<" "," "," "," "," "," "," "," ","d","e","s","c","r","i","p","t","i","o","n",":"," ","\"">> \o beh.description \o <<"\"","\n">>
    \o <<" "," "," "," "," "," "," "," ","r","u","l","e",":"," ","\"">> \o beh.rule \o <<"\"","\n">>

DomainServiceBlock(svc) ==
    <<" "," ","D","o","m","a","i","n","S","e","r","v","i","c","e"," ">> \o svc.name \o <<" ","{","\n">>
    \o DescriptionLine(svc.description)
    \o <<" "," "," "," ","b","e","h","a","v","i","o","r","s",":"," ","{","\n">> \o Join(Map(ServiceBehaviorLines, svc.behaviors)) \o <<" "," "," "," ","}","\n">>
    \o <<" "," ","}","\n","\n">>

DomainEventBlock(event) ==
    <<" "," ","D","o","m","a","i","n","E","v","e","n","t"," ">> \o event.name \o <<" ","{","\n">>
    \o DescriptionLine(event.description)
    \o AttributesBlock(event.attributes)
    \o <<" "," ","}","\n","\n">>

RepositoryLine(beh) == <<" "," "," "," "," "," ">> \o beh \o <<"\n">>

RepositoryBlock(repo) ==
    <<" "," ","R","e","p","o","s","i","t","o","r","y"," ">> \o repo.name \o <<" ","{","\n">>
    \o DescriptionLine(<<"M","a","n","a","g","e","s"," ">> \o Replace(repo.name, <<"R","e","p","o","s","i","t","o","r","y">>, <<>>) \o <<" ","p","e","r","s","i","s","t","e","n","c","e",".">>)
    \o <<" "," "," "," ","b","e","h","a","v","i","o","r","s",":"," ","{","\n">> \o Join(Map(RepositoryLine, repo.behaviors)) \o <<" "," "," "," ","}","\n">>
    \o <<" "," ","}","\n","\n">>

\* generate_csl with the loop over repositories moved before the loop over
\* domain events
CslText_RepositoriesEarly(d) ==
    <<"B","o","u","n","d","e","d","C","o","n","t","e","x","t"," ">> \o d.bounded_context \o <<" ","{","\n">>
    \o <<" "," ","d","e","s","c","r","i","p","t","i","o","n",":"," ","\"">> \o d.description \o <<"\"","\n","\n">>
    \o Join(Map(AggregateBlock, d.aggregates))
    \o Join(Map(EntityBlock, d.entities))
    \o Join(Map(ValueObjectBlock, d.value_objects))
    \o Join(Map(DomainServiceBlock, d.domain_services))
    \o Join(Map(RepositoryBlock, d.repositories))
    \o Join(Map(DomainEventBlock, d.domain_events))
    \o <<"}","\n">>

\* everything generate_csl writes to f, in the order of its f.write calls
CslText(d) ==
    <<"B","o","u","n","d","e","d","C","o","n","t","e","x","t"," ">> \o d.bounded_context \o <<" ","{","\n">>
    \o <<" "," ","d","e","s","c","r","i","p","t","i","o","n",":"," ","\"">> \o d.description \o <<"\"","\n","\n">>
    \o Join(Map(AggregateBlock, d.aggregates))
    \o Join(Map(EntityBlock, d.entities))
    \o Join(Map(ValueObjectBlock, d.value_objects))
    \o Join(Map(DomainServiceBlock, d.domain_services))
    \o Join(Map(DomainEventBlock, d.domain_events))
    \o Join(Map(RepositoryBlock, d.repositories))
    \o <<"}","\n">>

\* open(output_file, 'a'): the file as it is, created when it is not there
OpenForWriting_Append(file) == [exists |-> TRUE, content |-> file.content]

\* open(output_file, 'w'): the file created or truncated
OpenForWriting(file) == [exists |-> TRUE, content |-> <<>>]

\* generate_csl(ddd, output_file) on the output file as it is found
generate_csl(d, file) == [OpenForWriting(file) EXCEPT !.content = @ \o CslText(d)]

(***************************************************************************)
(* main of src/domain/xyz/final-prd-to-csl.py                              *)
(***************************************************************************)
MaxParts == 2       \* parts of a PRD file handed to main

PartLines == <<
    <<"#"," ","P","r","o","d","u","c","t"," ","R","e","q","u","i","r","e","m","e","n","t","s"," ","D","o","c","u","m","e","n","t">>,
    <<"#"," ","S","e","c","t","i","o","n",":"," ","O","v","e","r","v","i","e","w">>,
    <<"-"," ","P","r","o","d","u","c","t"," ","D","e","s","c","r","i","p","t","i","o","n",":"," ","T","r","a","c","k","s"," ","b","o","o","k","s">>,
    <<"-"," ","B","u","s","i","n","e","s","s"," ","A","r","e","a",":"," ","L","i","b","r","a","r","y"," ","M","a","n","a","g","e","m","e","n","t">>,
    <<"#","#"," ","T","h","i","n","g","s">>,
    <<"-"," ","B","o","o","k",":"," ","A"," ","b","o","o","k">>,
    <<" "," ","-"," ","i","d",":"," ","t","e","x","t",","," ","u","n","i","q","u","e">>,
    <<" "," ","-"," ","T","i","t","l","e"," ","m","u","s","t"," ","b","e"," ","s","e","t">>,
    <<"-"," ","M","e","m","b","e","r",":">>,
    <<"#","#"," ","P","r","o","p","e","r","t","i","e","s",":">>,
    <<"-"," ","t","i","t","l","e",":"," ","t","e","x","t",","," ","r","e","q","u","i","r","e","d">>,
    <<"#"," ","S","e","c","t","i","o","n",":"," ","O","p","e","r","a","t","i","o","n","s">>,
    <<"#","#"," ","[","A","d","d"," ","B","o","o","k","]">>,
    <<"-"," ","W","h","o"," ","C","a","n"," ","D","o"," ","I","t",":"," ","A","d","m","i","n"," ","O","n","l","y">>,
    <<"-"," ","I","n","p","u","t","s",":">>,
    <<"-"," ","t","i","t","l","e",":"," ","t","e","x","t">>,
    <<"-"," ","N","o","t","i","f","i","c","a","t","i","o","n","s",":">>,
    <<"-"," ","A"," ","b","o","o","k"," ","a","d","d","e","d">>,
    <<"-"," ","D","o","n","e">>,
    <<"#"," ","K","e","y"," ","T","e","r","m","s">>,
    <<"-"," ","B","o","o","k",":"," ","A"," ","b","o","u","n","d"," ","t","e","x","t">>,
    <<"-"," ","S","h","e","l","f",":"," ","H","o","l","d","s"," ","b","o","o","k","s">>,
    <<"#"," ","C","o","n","s","t","r","a","i","n","t","s">>,
    <<>>,
    <<"-"," ","M","a","x"," ","1","0"," ","l","o","a","n","s">>,
    <<"\t","-"," ","N","o"," ","f","i","n","e","s">>,
    <<"N","o","t","e","s"," ","w","i","t","h","o","u","t"," ","a"," ","h","e","a","d","e","r">>,
    <<"#"," ","F","e","a","t","u","r","e","s">>,
    <<"-"," ","S","e","a","r","c","h",":"," ","F","i","n","d"," ","a"," ","b","o","o","k">>,
    <<"#"," ","C","o","n","n","e","c","t","i","o","n","s">>,
    <<"-"," ","B","o","o","k"," ","t","o"," ","M","e","m","b","e","r",":"," ","L","o","a","n">>,
    <<" "," ","-"," ","n","e","e","d","s","_","r","e","v","i","e","w",":"," ","f","l","a","g",","," ","r","e","q","u","i","r","e","d">>,
    <<"#","#"," ","A","d","d"," ","B","o","o","k">> >>

\* a section with its lines, or lines that go on with the section before
Parts ==
    << <<1>>, <<2, 3, 4>>, <<5, 6, 7>>, <<10, 11>>,
       <<12, 13, 14, 15, 16, 17, 18, 19>>, <<20, 21, 22, 28, 29, 30, 31>>,
       <<23, 24, 25, 26>>, <<27, 6>>, <<6, 8, 9>>,
       <<12, 33, 14, 5, 6, 32>> >>

PartsFile(choice) == BlocksText(PartLines, Parts, choice)

\* the command line and the files main finds
Environments ==
    { NoEnvironment,
      [NoEnvironment EXCEPT !.output = OldFile],
      [NoEnvironment EXCEPT !.writable = FALSE, !.output = OldFile],
      [NoEnvironment EXCEPT !.argv = 0],
      [NoEnvironment EXCEPT !.argv = 2],
      [NoEnvironment EXCEPT !.input = "missing"],
      [NoEnvironment EXCEPT !.input = "missing", !.output = OldFile],
      [NoEnvironment EXCEPT !.input = "unreadable"],
      [NoEnvironment EXCEPT !.input = "unreadable", !.output = OldFile] }

\* `if len(sys.argv) != 2: ... sys.exit(1)`; argv counts the arguments after
\* the script name
Usage ==
    /\ pc = "main"
    /\ env.argv # 1
    /\ pc' = "exited"
    /\ exit' = 1
    /\ UNCHANGED <<prd, ddd, csl, text, cur, env, run, first, tsp>>

\* `if not os.path.exists(prd_file): ... sys.exit(1)`
NotFound ==
    /\ pc = "main"
    /\ env.argv = 1
    /\ env.input = "missing"
    /\ pc' = "exited"
    /\ exit' = 1
    /\ UNCHANGED <<prd, ddd, csl, text, cur, env, run, first, tsp>>

\* prd = parse_prd(prd_file), the file read
Parse ==
    /\ pc = "main"
    /\ env.argv = 1
    /\ env.input = "readable"
    /\ prd' = parse_prd(text)
    /\ pc' = "parsed"
    /\ UNCHANGED <<ddd, csl, text, cur, env, exit, run, first, tsp>>

\* ParseFails with the exception swallowed and an empty tree handed on
ParseFails_Swallowed ==
    /\ pc = "main"
    /\ env.argv = 1
    /\ env.input = "unreadable"
    /\ prd' = EmptyTree
    /\ pc' = "parsed"
    /\ UNCHANGED <<ddd, csl, text, cur, env, exit, run, first, tsp>>

\* parse_prd raises what open or read raised; main's except exits with 1
ParseFails ==
    /\ pc = "main"
    /\ env.argv = 1
    /\ env.input = "unreadable"
    /\ pc' = "exited"
    /\ exit' = 1
    /\ UNCHANGED <<prd, ddd, csl, text, cur, env, run, first, tsp>>

\* generate_csl(ddd, output_csl), then main returns
Generate ==
    /\ pc = "inferred"
    /\ env.writable
    /\ csl' = generate_csl(ddd, csl)
    /\ pc' = "exited"
    /\ exit' = 0
    /\ UNCHANGED <<prd, ddd, text, cur, env, run, first, tsp>>

\* open(output_file, 'w') raises; generate_csl raises it again and main's
\* except exits with 1
GenerateFails ==
    /\ pc = "inferred"
    /\ ~env.writable
    /\ pc' = "exited"
    /\ exit' = 1
    /\ UNCHANGED <<prd, ddd, csl, text, cur, env, run, first, tsp>>

\* the program is started again on the same command line and files; first
\* keeps what the run before wrote
Rerun ==
    /\ pc = "exited"
    /\ exit = 0
    /\ run = 1
    /\ run' = 2
    /\ first' = csl.content
    /\ pc' = "main"
    /\ exit' = Running
    /\ prd' = EmptyTree
    /\ ddd' = NoModel
    /\ UNCHANGED <<csl, text, cur, env, tsp>>

InitMain ==
    /\ pc = "main"
    /\ env \in Environments
    /\ IF env.argv = 1 /\ env.input = "readable"
       THEN \E choice \in BlockChoices(MaxParts, Parts) : text = PartsFile(choice)
       ELSE text = <<>>
    /\ csl = env.output
    /\ prd = EmptyTree
    /\ ddd = NoModel
    /\ cur = StartOfFile
    /\ exit = Running
    /\ run = 1
    /\ first = <<>>
    /\ tsp = NewConverter

NextMain ==
    \/ Usage \/ NotFound \/ Parse \/ ParseFails
    \/ Infer \/ Generate \/ GenerateFails \/ Rerun

SpecMain == InitMain /\ [][NextMain]_vars

(***************************************************************************)
(* Claims about infer_ddd_elements                                         *)
(***************************************************************************)
MentionsUnique(thing) ==
    \E i \in 1..Len(thing.properties) :
        Contains(Lower(thing.properties[i].description), <<"u","n","i","q","u","e">>)

LacksUnique(thing) == ~MentionsUnique(thing)

\* a value object built from one property, or the fixed Role object
IsSynthesized(vo) ==
    /\ Len(vo.attributes) = 1
    /\ vo.attributes[1].name \in { <<"v","a","l","u","e">>, <<"n","a","m","e">> }

FirstSegmentType(description) == Capitalize(Strip(Split(description, ",")[1]))

StartsWith(s, prefix) == MatchAt(s, prefix, 1)

SaysUnique(prop) == Contains(Lower(prop.description), <<"u","n","i","q","u","e">>)

\* C3: every Entity has a Repository with exactly the four behaviors findById,
\* findAll, save, delete in that order, and findById takes the first property
\* in source order whose description contains "unique", typed with the
\* capitalized first comma-separated segment of its description.
C3_RepositoryBehaviors ==
    pc = "inferred" =>
        LET ents == SelectSeq(prd.things, MentionsUnique)
        IN  /\ Len(ddd.repositories) = Len(ents)
            /\ \A i \in 1..Len(ents) :
                 LET repo  == ddd.repositories[i]
                     props == ents[i].properties
                 IN  /\ Len(repo.behaviors) = 4
                     /\ \E k \in 1..Len(props) :
                          /\ SaysUnique(props[k])
                          /\ \A j \in 1..(k - 1) : ~SaysUnique(props[j])
                          /\ repo.behaviors[1] =
                                 <<"f","i","n","d","B","y","I","d","(">> \o props[k].name \o <<":"," ">>
                                     \o FirstSegmentType(props[k].description)
                                     \o <<")",":"," ">> \o ents[i].name
                     /\ StartsWith(repo.behaviors[2], <<"f","i","n","d","A","l","l","(">>)
                     /\ StartsWith(repo.behaviors[3], <<"s","a","v","e","(">>)
                     /\ StartsWith(repo.behaviors[4], <<"d","e","l","e","t","e","(">>)
                     /\ (/\ ents[i].name = <<"B","o","o","k">>
                         /\ props[1].name = <<"i","d">>
                         /\ props[1].description = <<"t","e","x","t",","," ","u","n","i","q","u","e",","," ","r","e","q","u","i","r","e","d">>)
                        => repo.behaviors[1] = <<"f","i","n","d","B","y","I","d","(","i","d",":"," ","T","e","x","t",")",":"," ","B","o","o","k">>

C3_Witness ==
    /\ pc = "inferred"
    /\ \E i \in 1..Len(prd.things) :
         LET props == prd.things[i].properties
         IN  /\ Len(props) = 2
             /\ SaysUnique(props[1]) /\ SaysUnique(props[2])
             /\ props[1].name # props[2].name
    /\ Len(ddd.repositories) >= 1

\* C4 as claimed: a property description containing "list of roles" anywhere in
\* the tree gives exactly one ValueObject named Role, whose instances are ADMIN
\* and REGULAR_USER in that order.
C4_RoleSynthesis ==
    (/\ pc = "inferred"
     /\ \E i \in 1..Len(prd.things) : \E j \in 1..Len(prd.things[i].properties) :
            Contains(Lower(prd.things[i].properties[j].description), <<"l","i","s","t"," ","o","f"," ","r","o","l","e","s">>))
    => LET roles == {k \in 1..Len(ddd.value_objects) : ddd.value_objects[k].name = <<"R","o","l","e">>}
       IN  /\ Cardinality(roles) = 1
           /\ \A k \in roles :
                  /\ Len(ddd.value_objects[k].instances) = 2
                  /\ ddd.value_objects[k].instances[1].name = <<"A","D","M","I","N">>
                  /\ ddd.value_objects[k].instances[2].name = <<"R","E","G","U","L","A","R","_","U","S","E","R">>

\* C10: entities, aggregates and repositories have one element per Thing with a
\* "unique" property and are aligned: aggregate name = root = entity name,
\* repository name = entity name followed by Repository.
C10_Alignment ==
    pc = "inferred" =>
        LET n == Cardinality({i \in 1..Len(prd.things) : MentionsUnique(prd.things[i])})
        IN  /\ Len(ddd.entities) = n
            /\ Len(ddd.aggregates) = n
            /\ Len(ddd.repositories) = n
            /\ \A i \in 1..n :
                  /\ ddd.aggregates[i].name = ddd.entities[i].name
                  /\ ddd.aggregates[i].root = ddd.entities[i].name
                  /\ ddd.repositories[i].name =
                         ddd.entities[i].name \o <<"R","e","p","o","s","i","t","o","r","y">>

C10_Witness ==
    /\ pc = "inferred"
    /\ Len(prd.things) = 2
    /\ LacksUnique(prd.things[1])
    /\ MentionsUnique(prd.things[2])
    /\ Len(ddd.aggregates) = 1
    /\ Len(ddd.value_objects) >= 1


\* the rule of the permission behavior of operation i
RuleOf(i) == ddd.domain_services[1].behaviors[i].rule

BothRoles == <<"T","r","u","e"," ","f","o","r"," ","A","D","M","I","N"," ","o","r"," ","R","E","G","U","L","A","R","_","U","S","E","R"," ","r","o","l","e","s">>

\* the characters of s that are word characters or whitespace
WordsAndSpaces(s) == SelectSeq(s, LAMBDA c : IsWord(c) \/ IsSpace(c))

\* C5 as claimed: "all users" in the who field gives the rule naming both
\* roles; any other who field gives the single role token that is the
\* uppercased who with " ONLY" removed.
C5_PermissionRule ==
    pc = "inferred" =>
        \A i \in 1..Len(prd.operations) :
            LET who == prd.operations[i].who
            IN  IF Contains(Lower(who), <<"a","l","l"," ","u","s","e","r","s">>)
                THEN RuleOf(i) = BothRoles
                ELSE RuleOf(i) = <<"T","r","u","e"," ","f","o","r"," ">> \o Replace(Upper(who), <<" ","O","N","L","Y">>, <<>>)
                                     \o <<" ","r","o","l","e">>

\* C5 amended: the role token is the who field with the characters that are
\* neither word characters nor whitespace dropped, uppercased, with " ONLY"
\* removed; "Admin Only" gives ADMIN.
C5_PermissionRuleAmended ==
    pc = "inferred" =>
        \A i \in 1..Len(prd.operations) :
            LET who == prd.operations[i].who
            IN  /\ IF Contains(Lower(who), <<"a","l","l"," ","u","s","e","r","s">>)
                   THEN RuleOf(i) = BothRoles
                   ELSE RuleOf(i) = <<"T","r","u","e"," ","f","o","r"," ">>
                                        \o Replace(Upper(WordsAndSpaces(who)), <<" ","O","N","L","Y">>, <<>>)
                                        \o <<" ","r","o","l","e">>
                /\ who = <<"A","d","m","i","n"," ","O","n","l","y">> => RuleOf(i) = <<"T","r","u","e"," ","f","o","r"," ","A","D","M","I","N"," ","r","o","l","e">>
                /\ who = <<"A","l","l"," ","U","s","e","r","s">> =>
                       /\ Contains(RuleOf(i), <<"A","D","M","I","N">>)
                       /\ Contains(RuleOf(i), <<"R","E","G","U","L","A","R","_","U","S","E","R">>)

C5_Witness ==
    /\ pc = "inferred"
    /\ \E i, j \in 1..Len(prd.operations) :
           /\ prd.operations[i].who = <<"A","l","l"," ","U","s","e","r","s">>
           /\ RuleOf(i) = BothRoles
           /\ prd.operations[j].who = <<"A","d","m","i","n"," ","O","n","l","y",".">>
           /\ RuleOf(j) = <<"T","r","u","e"," ","f","o","r"," ","A","D","M","I","N"," ","r","o","l","e">>

(***************************************************************************)
(* Claims about the line-based pipeline of good-prd-to-csl.py              *)
(***************************************************************************)
\* PRD files whose Things section holds the Thing Book with the Properties
\* title and id and the Action Add Book
BookFiles ==
    {ThingsFile(choice) : choice \in {<<1, 3, 5>>, <<1, 5, 3>>, <<2, 1, 3, 5>>}}

NamesOf(seq) == [i \in 1..Len(seq) |-> seq[i].name]

\* C2: parse_prd then infer_ddd_elements on the Book file give one Entity Book
\* with the attributes title, id in that order and a behavior Add Book, and a
\* repository BookRepository whose first behavior is findById(id: Text): Book.
C2_BookPipeline ==
    (pc = "good_inferred" /\ text \in BookFiles) =>
        /\ NamesOf(ddd.entities) = << <<"B","o","o","k">> >>
        /\ NamesOf(ddd.entities[1].attributes) = << <<"t","i","t","l","e">>, <<"i","d">> >>
        /\ \E k \in 1..Len(ddd.entities[1].behaviors) :
               ddd.entities[1].behaviors[k].name = <<"A","d","d"," ","B","o","o","k">>
        /\ NamesOf(ddd.repositories) = << <<"B","o","o","k","R","e","p","o","s","i","t","o","r","y">> >>
        /\ ddd.repositories[1].behaviors[1] = <<"f","i","n","d","B","y","I","d","(","i","d",":"," ","T","e","x","t",")",":"," ","B","o","o","k">>

C2_Witness ==
    /\ pc = "good_inferred"
    /\ text = ThingsFile(<<1, 3, 5>>)
    /\ Len(prd.things) = 1
    /\ Len(prd.things[1].properties) = 2
    /\ Len(prd.things[1].actions) = 1
    /\ Len(ddd.entities) = 1

(***************************************************************************)
(* Claims about main, parse_prd and generate_csl of final-prd-to-csl.py    *)
(***************************************************************************)
\* the command line names a file that can be read
Readable == env.argv = 1 /\ env.input = "readable"

\* C7: a second run on the same input text leaves the output file with
\* exactly the text the first run wrote.
C7_SecondRunSameOutput ==
    (pc = "exited" /\ exit = 0 /\ run = 2) => csl.content = first

C7_Witness ==
    /\ pc = "exited"
    /\ exit = 0
    /\ run = 2
    /\ env.output = OldFile
    /\ ddd.entities # <<>>
    /\ Len(first) > Len(OldFile.content)
    /\ csl.content = first

\* some # of s is followed, after whitespace, by a word character
HasMarker(s) ==
    \E p \in 1..Len(s) :
        /\ s[p] = "#"
        /\ SkipSpaces(s, p + 1) <= Len(s)
        /\ IsWord(s[SkipSpaces(s, p + 1)])

\* the contents of the sections among pairs that go by name, in source order
SectionContents(pairs, name) ==
    LET named == SelectSeq(pairs, LAMBDA pair : Replace(Lower(pair.name), <<" ">>, <<"_">>) = name)
    IN  [i \in 1..Len(named) |-> named[i].content]

\* the sections of the text in the file
Sections == section_pairs(SplitSections(Normalize(text)))

Last(seq) == seq[Len(seq)]

\* C8: parse_prd returns a tree for every text that can be read: the empty
\* tree when the text has no section marker; a field of a section that is
\* absent keeps its default, a field of a section that is present holds what
\* the parser of that section finds in it.
C8_ParseTotal ==
    /\ (pc = "exited" /\ Readable /\ env.writable) => exit = 0
    /\ (pc = "parsed") =>
        /\ ~HasMarker(text) => prd = EmptyTree
        /\ LET pairs       == Sections
               overview    == SectionContents(pairs, <<"o","v","e","r","v","i","e","w">>)
               key_terms   == SectionContents(pairs, <<"k","e","y","_","t","e","r","m","s">>)
               features    == SectionContents(pairs, <<"f","e","a","t","u","r","e","s">>)
               things      == SectionContents(pairs, <<"t","h","i","n","g","s">>)
               operations  == SectionContents(pairs, <<"o","p","e","r","a","t","i","o","n","s">>)
               connections == SectionContents(pairs, <<"c","o","n","n","e","c","t","i","o","n","s">>)
               constraints == SectionContents(pairs, <<"c","o","n","s","t","r","a","i","n","t","s">>)
           IN  /\ prd.overview = IF overview = <<>> THEN EmptyOverview
                                 ELSE ParseOverview(Last(overview))
               /\ prd.key_terms = IF key_terms = <<>> THEN <<>>
                                  ELSE KeyTerms(Last(key_terms), 1)
               /\ prd.features = IF features = <<>> THEN <<>>
                                 ELSE NamedItems(Last(features), 1, TRUE)
               /\ prd.things = Join(Map(ParseThings, things))
               /\ prd.operations = Join(Map(ParseOperations, operations))
               /\ prd.connections = IF connections = <<>> THEN <<>>
                                    ELSE NamedItems(Last(connections), 1, FALSE)
               /\ prd.constraints = IF constraints = <<>> THEN <<>>
                                    ELSE PlainItems(Last(constraints), 1)

C8_Witness ==
    /\ pc = "parsed"
    /\ HasMarker(text)
    /\ SectionContents(Sections, <<"o","v","e","r","v","i","e","w">>) = <<>>
    /\ SectionContents(Sections, <<"o","p","e","r","a","t","i","o","n","s">>) = <<>>
    /\ SectionContents(Sections, <<"t","h","i","n","g","s">>) # <<>>
    /\ prd.overview = EmptyOverview
    /\ prd.operations = <<>>
    /\ prd.things # <<>>

\* C9: the output file changes only in the step after infer_ddd_elements
\* returned, which follows the step in which parse_prd returned; when the
\* input path is missing or cannot be read, the output file stays as it was
\* found and the process exits with 1.
C9_StagesInOrder ==
    [][ /\ (csl' # csl => pc = "inferred")
        /\ (pc' = "inferred" => pc = "parsed")
        /\ (pc' = "parsed" => (pc = "main" /\ Readable))
        /\ (~Readable => (csl' = env.output /\ (pc' = "exited" => exit' = 1))) ]_vars

C9_Witness ==
    /\ pc = "exited"
    /\ exit = 1
    /\ env.input = "unreadable"
    /\ env.output = OldFile
    /\ csl = OldFile

(***************************************************************************)
(* CSLToTypeSpecConverter of src/domain/csl-to-tsp.py.  tsp is the         *)
(* converter object: the lines of output, indent_level, and whether the    *)
(* call of convert raised.                                                 *)
(***************************************************************************)

\* "  " * indent_level
RECURSIVE indent(_)
indent(level) == IF level <= 0 THEN <<>> ELSE <<" ", " ">> \o indent(level - 1)

add_line(c, line) == [c EXCEPT !.output = Append(@, indent(c.indent_level) \o line)]

RECURSIVE add_lines(_, _)
add_lines(c, lines) ==
    IF lines = <<>> THEN c ELSE add_lines(add_line(c, Head(lines)), Tail(lines))

Indent(c) == [c EXCEPT !.indent_level = @ + 1]
Dedent(c) == [c EXCEPT !.indent_level = @ - 1]

\* lines added between indent_level += 1 and indent_level -= 1
Indented(c, lines) == Dedent(add_lines(Indent(c), lines))

\* re.match(r'BoundedContext\s+(\w+)', csl_content)
ContextName(content) ==
    LET a == SkipSpaces(content, 15)
        e == WordEnd(content, a)
    IN  IF MatchAt(content, <<"B","o","u","n","d","e","d","C","o","n","t","e","x","t">>, 1) /\ a > 15 /\ e >= a
        THEN SubSeq(content, a, e) ELSE <<>>

ServiceHeader(c, context_name) ==
    LET c1 == add_lines(c, << <<"n","a","m","e","s","p","a","c","e"," ">> \o context_name \o <<";">>,
                              <<>>,
                              <<"@","d","o","c","(","\"","G","e","n","e","r","a","t","e","d"," ","A","P","I"," ","f","r","o","m"," ","C","S","L"," ","m","o","d","e","l","\"",")">>,
                              <<"s","e","r","v","i","c","e"," ">> \o context_name \o <<"S","e","r","v","i","c","e"," ","{">> >>)
        c2 == Indented(c1, << <<"h","o","s","t",":"," ","\"","a","p","i",".","e","x","a","m","p","l","e",".","c","o","m","\"",";">>, <<"v","e","r","s","i","o","n",":"," ","\"","1",".","0",".","0","\"",";">> >>)
    IN  add_lines(c2, << <<"}">>, <<>> >>)

NoBlock == [end |-> 0, name |-> <<>>, content |-> <<>>]

\* BlockAt with the content running to the brace that closes the block
BlockAt_Balanced(s, keyword, p) ==
    LET a == SkipSpaces(s, p + Len(keyword))
        e == WordEnd(s, a)
        b == SkipSpaces(s, e + 1)
        opens == {k \in b..Len(s) : s[k] = "{"}
        shuts == {k \in b..Len(s) : s[k] = "}"}
        closes == {k \in shuts : Cardinality({j \in opens : j < k})
                                   = Cardinality({j \in shuts : j <= k})}
        close == IF closes = {} THEN 0 ELSE Min(closes)
    IN  IF /\ MatchAt(s, keyword, p) /\ a > p + Len(keyword) /\ e >= a
           /\ MatchAt(s, <<"{">>, b) /\ close # 0
        THEN [end |-> close + 1, name |-> SubSeq(s, a, e), content |-> SubSeq(s, b + 1, close - 1)]
        ELSE NoBlock

\* keyword\s+(\w+)\s*{(.*?)} matched at p: the content runs to the first "}"
BlockAt(s, keyword, p) ==
    LET a == SkipSpaces(s, p + Len(keyword))
        e == WordEnd(s, a)
        b == SkipSpaces(s, e + 1)
        close == Find(s, <<"}">>, b + 1)
    IN  IF /\ MatchAt(s, keyword, p) /\ a > p + Len(keyword) /\ e >= a
           /\ MatchAt(s, <<"{">>, b) /\ close # 0
        THEN [end |-> close + 1, name |-> SubSeq(s, a, e), content |-> SubSeq(s, b + 1, close - 1)]
        ELSE NoBlock

\* the positions of s where keyword\s+(\w+)\s*{(.*?)} matches
BlockStarts(s, keyword) == {k \in 1..Len(s) : BlockAt(s, keyword, k).end # 0}

\* the matches from position p on, M the positions where the pattern matches:
\* the next match starts where the one before ended
RECURSIVE BlocksFrom(_, _, _, _)
BlocksFrom(s, keyword, M, p) ==
    LET q == FirstAt({k \in M : k >= p}, s)
    IN  IF q > Len(s) THEN <<>>
        ELSE <<BlockAt(s, keyword, q)>> \o BlocksFrom(s, keyword, M, BlockAt(s, keyword, q).end)

\* re.finditer(keyword\s+(\w+)\s*{(.*?)}, s, re.DOTALL)
Blocks(s, keyword) == BlocksFrom(s, keyword, BlockStarts(s, keyword), 1)

NoGroup == [found |-> FALSE, group |-> <<>>]

\* re.search(label\s*{(.*?)}, content, re.DOTALL)
SubBlock(content, label) ==
    LET Open(p) == SkipSpaces(content, p + Len(label))
        Hit(p) == /\ MatchAt(content, label, p)
                  /\ MatchAt(content, <<"{">>, Open(p))
                  /\ Find(content, <<"}">>, Open(p) + 1) # 0
        q == FirstAt({k \in 1..Len(content) : Hit(k)}, content)
    IN  IF q > Len(content) THEN NoGroup
        ELSE [found |-> TRUE,
              group |-> SubSeq(content, Open(q) + 1, Find(content, <<"}">>, Open(q) + 1) - 1)]

\* name, rest = line.split(':', 1)
BeforeColon(line) == SubSeq(line, 1, Find(line, <<":">>, 1) - 1)
AfterColon(line) == SubSeq(line, Find(line, <<":">>, 1) + 1, Len(line))

\* re.match(r'(\w+)(?:\s*\{([^}]*)\})?', rest.strip()).groups()
TypeMatch(rest) ==
    LET e == WordEnd(rest, 1)
        b == SkipSpaces(rest, e + 1)
        close == Find(rest, <<"}">>, b + 1)
    IN  [found |-> e >= 1,
         type_name |-> SubSeq(rest, 1, e),
         constraints |-> IF MatchAt(rest, <<"{">>, b) /\ close # 0
                         THEN SubSeq(rest, b + 1, close - 1) ELSE <<>>]

RECURSIVE StripAll(_)
StripAll(parts) == IF parts = <<>> THEN <<>> ELSE <<Strip(Head(parts))>> \o StripAll(Tail(parts))

RECURSIVE AttributesOf(_)
AttributesOf(attr_lines) ==
    IF attr_lines = <<>> THEN <<>>
    ELSE LET line == Head(attr_lines)
             m == TypeMatch(Strip(AfterColon(line)))
         IN  (IF Contains(line, <<":">>) /\ m.found
              THEN << [name |-> Strip(BeforeColon(line)), type |-> Strip(m.type_name),
                       constraints |-> IF m.constraints # <<>>
                                       THEN StripAll(Split(m.constraints, ","))
                                       ELSE <<>>] >>
              ELSE <<>>) \o AttributesOf(Tail(attr_lines))

parse_attributes(attrs) == AttributesOf(Split(Strip(attrs), "\n"))

IsListed(constraints, word) == \E i \in 1..Len(constraints) : constraints[i] = word

ModelField(attr) ==
    attr.name
    \o (IF attr.type = <<"L","i","s","t">> THEN <<":"," ","s","t","r","i","n","g","[","]">> ELSE <<":"," ">> \o Lower(attr.type))
    \o (IF IsListed(attr.constraints, <<"o","p","t","i","o","n","a","l">>) THEN <<"?",";">> ELSE <<";">>)

RECURSIVE ModelFields(_)
ModelFields(attributes) ==
    IF attributes = <<>> THEN <<>>
    ELSE <<ModelField(Head(attributes))>> \o ModelFields(Tail(attributes))

EntityModel(c, entity_name, attributes) ==
    add_lines(Indented(add_line(c, <<"m","o","d","e","l"," ">> \o entity_name \o <<" ","{">>), ModelFields(attributes)),
              << <<"}">>, <<>> >>)

RECURSIVE RequiredFields(_)
RequiredFields(attributes) ==
    IF attributes = <<>> THEN <<>>
    ELSE (IF IsListed(Head(attributes).constraints, <<"r","e","q","u","i","r","e","d">>)
          THEN << Head(attributes).name \o <<":"," ">> \o Lower(Head(attributes).type) \o <<";">> >>
          ELSE <<>>) \o RequiredFields(Tail(attributes))

\* no attributes sub-block has matched in this call of convert
Unbound == [bound |-> FALSE, list |-> <<>>]

\* the "add" branch; the name attributes is read at line 101, two indents in
CreateOperation(c, entity_name, desc, attributes) ==
    LET c1 == add_lines(c, << <<"@","p","o","s","t">>,
                              <<"@","d","o","c","(","\"">> \o Strip(desc) \o <<"\"",")">>,
                              <<"c","r","e","a","t","e","(","@","b","o","d","y"," ">> \o Lower(entity_name) \o <<":"," ","{">> >>)
        c2 == add_line(Indented(c1, RequiredFields(attributes.list)), <<"}",")",":"," ","{">>)
        c3 == add_line(Indented(c2, << <<"@","s","t","a","t","u","s","C","o","d","e"," ","s","t","a","t","u","s","C","o","d","e",":"," ","2","0","1",";">>,
                                       <<"@","b","o","d","y"," ","c","r","e","a","t","e","d">> \o entity_name \o <<":"," ">> \o entity_name \o <<";">> >>),
                       <<"}"," ","|"," ","{">>)
        c4 == Indented(c3, << <<"@","s","t","a","t","u","s","C","o","d","e"," ","s","t","a","t","u","s","C","o","d","e",":"," ","4","0","0",";">>, <<"@","b","o","d","y"," ","e","r","r","o","r",":"," ","s","t","r","i","n","g",";">> >>)
    IN  IF attributes.bound THEN add_lines(c4, << <<"}",";">>, <<>> >>)
        ELSE [Indent(c1) EXCEPT !.raised = TRUE]

\* the "remove" branch
DeleteOperation(c, desc) ==
    LET c1 == add_lines(c, << <<"@","d","e","l","e","t","e">>,
                              <<"@","r","o","u","t","e","(","\"","/","{","i","n","v","e","n","t","o","r","y","I","d","}","\"",")">>,
                              <<"@","d","o","c","(","\"">> \o Strip(desc) \o <<"\"",")">>,
                              <<"d","e","l","e","t","e","(","@","p","a","t","h"," ","i","n","v","e","n","t","o","r","y","I","d",":"," ","s","t","r","i","n","g",")",":"," ","{">> >>)
        c2 == add_line(Indented(c1, << <<"@","s","t","a","t","u","s","C","o","d","e"," ","s","t","a","t","u","s","C","o","d","e",":"," ","2","0","4",";">> >>), <<"}"," ","|"," ","{">>)
        c3 == Indented(c2, << <<"@","s","t","a","t","u","s","C","o","d","e"," ","s","t","a","t","u","s","C","o","d","e",":"," ","4","0","4",";">>, <<"@","b","o","d","y"," ","e","r","r","o","r",":"," ","s","t","r","i","n","g",";">> >>)
    IN  add_lines(c3, << <<"}",";">>, <<>> >>)

RECURSIVE Endpoints(_, _, _, _)
Endpoints(c, entity_name, behaviors, attributes) ==
    IF behaviors = <<>> \/ c.raised THEN c
    ELSE LET behavior == Head(behaviors)
             name == Lower(Strip(BeforeColon(behavior)))
             desc == AfterColon(behavior)
             c1 == IF ~Contains(behavior, <<":">>) THEN c
                   ELSE IF Contains(name, <<"a","d","d">>)
                        THEN CreateOperation(c, entity_name, desc, attributes)
                   ELSE IF Contains(name, <<"r","e","m","o","v","e">>) THEN DeleteOperation(c, desc)
                   ELSE c
         IN  Endpoints(c1, entity_name, Tail(behaviors), attributes)

EntityInterface(c, entity_name, behaviors, attributes) ==
    LET c1 == add_lines(c, << <<"@","r","o","u","t","e","(","\"","/">> \o Lower(entity_name) \o <<"s","\"",")">>,
                              <<"i","n","t","e","r","f","a","c","e"," ">> \o entity_name \o <<"O","p","e","r","a","t","i","o","n","s"," ","{">> >>)
        c2 == Endpoints(Indent(c1), entity_name, behaviors, attributes)
    IN  IF c2.raised THEN c2 ELSE add_line(Dedent(c2), <<"}">>)

\* the body of the loop over entity matches; st carries the converter and
\* the local name attributes
ConvertEntity(st, m) ==
    LET attrs_match == SubBlock(m.content, <<"a","t","t","r","i","b","u","t","e","s",":">>)
        attributes == IF attrs_match.found
                      THEN [bound |-> TRUE, list |-> parse_attributes(attrs_match.group)]
                      ELSE st.attributes
        c1 == IF attrs_match.found THEN EntityModel(st.c, m.name, attributes.list) ELSE st.c
        behaviors_match == SubBlock(m.content, <<"b","e","h","a","v","i","o","r","s",":">>)
        c2 == IF behaviors_match.found
              THEN EntityInterface(c1, m.name, Split(Strip(behaviors_match.group), "\n"), attributes)
              ELSE c1
    IN  [c |-> c2, attributes |-> attributes]

RECURSIVE ConvertEntities(_, _)
ConvertEntities(st, matches) ==
    IF matches = <<>> \/ st.c.raised THEN st.c
    ELSE ConvertEntities(ConvertEntity(st, Head(matches)), Tail(matches))

RECURSIVE EnumMembers(_)
EnumMembers(instances) ==
    IF instances = <<>> THEN <<>>
    ELSE (IF Contains(Head(instances), <<":">>)
          THEN << <<"@","d","o","c","(","\"">> \o Strip(AfterColon(Head(instances))) \o <<"\"",")">>,
                  Strip(BeforeColon(Head(instances))) \o <<",">> >>
          ELSE <<>>) \o EnumMembers(Tail(instances))

ConvertValueObject(c, m) ==
    LET instances_match == SubBlock(m.content, <<"i","n","s","t","a","n","c","e","s",":">>)
    IN  IF instances_match.found
        THEN add_lines(Indented(add_line(c, <<"e","n","u","m"," ">> \o m.name \o <<" ","{">>),
                                EnumMembers(Split(Strip(instances_match.group), "\n"))),
                       << <<"}">>, <<>> >>)
        ELSE c

RECURSIVE ConvertValueObjects(_, _)
ConvertValueObjects(c, matches) ==
    IF matches = <<>> THEN c
    ELSE ConvertValueObjects(ConvertValueObject(c, Head(matches)), Tail(matches))

\* convert without `self.output = []`
convert_OutputKept(self, csl_content) ==
    LET c0 == [self EXCEPT !.raised = FALSE]
        c1 == ServiceHeader(c0, ContextName(csl_content))
        c2 == ConvertEntities([c |-> c1, attributes |-> Unbound], Blocks(csl_content, <<"E","n","t","i","t","y">>))
    IN  IF c2.raised THEN c2
        ELSE ConvertValueObjects(c2, Blocks(csl_content, <<"V","a","l","u","e","O","b","j","e","c","t">>))

\* the converter after convert(csl_content): output is reset, indent_level
\* is not
convert(self, csl_content) ==
    LET c0 == [self EXCEPT !.output = <<>>, !.raised = FALSE]
        c1 == ServiceHeader(c0, ContextName(csl_content))
        c2 == ConvertEntities([c |-> c1, attributes |-> Unbound], Blocks(csl_content, <<"E","n","t","i","t","y">>))
    IN  IF c2.raised THEN c2
        ELSE ConvertValueObjects(c2, Blocks(csl_content, <<"V","a","l","u","e","O","b","j","e","c","t">>))

\* "\n".join(self.output), the value convert returns
RECURSIVE JoinLines(_)
JoinLines(lines) ==
    IF lines = <<>> THEN <<>>
    ELSE IF Len(lines) = 1 THEN Head(lines)
    ELSE Head(lines) \o <<"\n">> \o JoinLines(Tail(lines))

(***************************************************************************)
(* Notation to TypeSpec: a Document Tree is inferred, written by           *)
(* generate_csl, and the file is read and converted                        *)
(* (convert_csl_to_typespec).                                              *)
(***************************************************************************)

MaxEntities == 2     \* Things of the Document Tree the notation is generated from

\* the Things to choose from: a head of HeadList and properties of PropList
EntityThings == <<
    <<1, <<1, 3>> >>, <<1, <<3, 2>> >>, <<1, <<3>> >>,
    <<2, <<6>> >>, <<2, <<>> >>, <<1, <<4, 1>> >> >>

EntitiesTree(choice) == ThingTree([i \in 1..Len(choice) |-> EntityThings[choice[i]]])

Convert ==
    /\ pc = "exited"
    /\ exit = 0
    /\ csl.exists
    /\ tsp' = convert(tsp, csl.content)
    /\ pc' = "converted"
    /\ UNCHANGED <<prd, ddd, csl, text, cur, env, exit, run, first>>

\* a second converter.convert(csl_content) on the same converter object, with
\* the same text; first keeps what the first call returned
Reconvert ==
    /\ pc = "converted"
    /\ ~tsp.raised
    /\ first' = JoinLines(tsp.output)
    /\ tsp' = convert(tsp, csl.content)
    /\ pc' = "reconverted"
    /\ UNCHANGED <<prd, ddd, csl, text, cur, env, exit, run>>

InitTsp ==
    /\ pc = "parsed"
    /\ \E choice \in BlockChoices(MaxEntities, EntityThings) : prd = EntitiesTree(choice)
    /\ ddd = NoModel
    /\ csl = NoFile
    /\ text = <<>>
    /\ cur = StartOfFile
    /\ env = NoEnvironment
    /\ exit = Running
    /\ run = 1
    /\ first = <<>>
    /\ tsp = NewConverter

NextTsp == Infer \/ Generate \/ Convert

SpecTsp == InitTsp /\ [][NextTsp]_vars

\* the lines of the converter's output that read line, indentation aside
CountLines(line) == Cardinality({i \in 1..Len(tsp.output) : Strip(tsp.output[i]) = line})

\* the behaviors of the inferred entities whose name contains word
BehaviorsNamed(word) ==
    UNION { { <<i, j>> : j \in {k \in 1..Len(ddd.entities[i].behaviors) :
                                   Contains(Lower(ddd.entities[i].behaviors[k].name), word)} } :
            i \in 1..Len(ddd.entities) }

\* C6 as claimed: converting the notation generate_csl wrote, every entity
\* behavior whose name contains "add" gives a create operation with the two
\* result variants 201 (the created entity) and 400 (an error string), and every
\* behavior whose name contains "remove" gives a delete operation with the two
\* result variants 204 and 404.
C6_AddRemoveEndpoints ==
    pc = "converted"
    => LET adds == Cardinality(BehaviorsNamed(<<"a","d","d">>))
           removes == Cardinality(BehaviorsNamed(<<"r","e","m","o","v","e">>))
       IN  /\ ~tsp.raised
           /\ CountLines(<<"@","p","o","s","t">>) = adds
           /\ CountLines(<<"@","s","t","a","t","u","s","C","o","d","e"," ","s","t","a","t","u","s","C","o","d","e",":"," ","2","0","1",";">>) = adds
           /\ CountLines(<<"@","s","t","a","t","u","s","C","o","d","e"," ","s","t","a","t","u","s","C","o","d","e",":"," ","4","0","0",";">>) = adds
           /\ CountLines(<<"@","d","e","l","e","t","e">>) = removes
           /\ CountLines(<<"@","s","t","a","t","u","s","C","o","d","e"," ","s","t","a","t","u","s","C","o","d","e",":"," ","2","0","4",";">>) = removes
           /\ CountLines(<<"@","s","t","a","t","u","s","C","o","d","e"," ","s","t","a","t","u","s","C","o","d","e",":"," ","4","0","4",";">>) = removes
           /\ CountLines(<<"}"," ","|"," ","{">>) = adds + removes

(***************************************************************************)
(* Document Tree to notation: a tree with Things and operations is         *)
(* inferred and written by generate_csl.                                   *)
(***************************************************************************)

MaxGenThings == 2    \* Things of the Document Tree
MaxGenOps == 2       \* operations of the Document Tree

\* the properties to choose from: those of PropList and one with an empty
\* token in its description
GenPropList == PropList \o << [name |-> <<"c","o","d","e">>, description |-> <<"t","e","x","t",",",",","U","n","i","q","u","e",","," ","r","e","q","u","i","r","e","d">>] >>

\* the Things to choose from: a head of HeadList and properties of GenPropList
GenThings == << <<1, <<1, 3>> >>, <<2, <<6, 7>> >>, <<2, <<4, 5>> >> >>

MakeGenThing(c) ==
    [MakeThing(<<c[1], <<>> >>) EXCEPT
        !.properties = [i \in 1..Len(c[2]) |-> GenPropList[c[2][i]]]]

\* the notifications to choose from
GenNotifList == << <<"A"," ","b","o","o","k"," ","a","d","d","e","d">>, <<"D","o","n","e">>, <<"S","t","o","c","k"," "," ","l","o","w"," ","n","o","w">>, <<"u","s","e","r"," ","w","a","s"," ","N","O","T","I","F","I","E","D"," ","b","y"," ","m","a","i","l">> >>

\* the operations to choose from: a head of OpHeadList and notifications of
\* GenNotifList
GenOps == << <<1, <<1, 3>> >>, <<2, <<4, 2>> >>, <<4, <<>> >> >>

MakeGenOp(c) ==
    [MakeOp(<<c[1], <<>> >>) EXCEPT
        !.notifications = [i \in 1..Len(c[2]) |-> GenNotifList[c[2][i]]]]

\* the Overview business areas to choose from
AreaList == << <<"L","i","b","r","a","r","y"," ","M","a","n","a","g","e","m","e","n","t">>, <<>>, <<"!","!","!">>, <<"R","&","D",":"," ","b","o","o","k","s","_","2">> >>

GenTree(area, things, ops) ==
    [EmptyTree EXCEPT !.overview = [LibraryOverview EXCEPT !.business_area = AreaList[area]],
                      !.things = [i \in 1..Len(things) |-> MakeGenThing(GenThings[things[i]])],
                      !.operations = [i \in 1..Len(ops) |-> MakeGenOp(GenOps[ops[i]])]]

InitGen ==
    /\ pc = "parsed"
    /\ \E area \in 1..Len(AreaList) :
       \E things \in BlockChoices(MaxGenThings, GenThings) :
       \E ops \in BlockChoices(MaxGenOps, GenOps) :
           prd = GenTree(area, things, ops)
    /\ ddd = NoModel
    /\ csl = NoFile
    /\ text = <<>>
    /\ cur = StartOfFile
    /\ env = NoEnvironment
    /\ exit = Running
    /\ run = 1
    /\ first = <<>>
    /\ tsp = NewConverter

NextGen == Infer \/ Generate

SpecGen == InitGen /\ [][NextGen]_vars

\* the index of the last character of the line of s that starts at k
LineEnd(s, k) == FirstAt({j \in k..Len(s) : s[j] = "\n"}, s) - 1

\* where the lines of s start that open a block at the first level of the
\* bounded context: two spaces, a word, and "{" at the end of the line
BlockLines(s) ==
    {k \in 2..(Len(s) - 3) :
        /\ s[k - 1] = "\n" /\ s[k] = " " /\ s[k + 1] = " " /\ s[k + 2] # " "
        /\ s[LineEnd(s, k)] = "{"}

\* kind and name of the block opened by the line at k: "  Kind Name {"
BlockHeader(s, k) ==
    LET line == SubSeq(s, k + 2, LineEnd(s, k) - 2)
        sp == Find(line, <<" ">>, 1)
    IN  [kind |-> SubSeq(line, 1, sp - 1), name |-> SubSeq(line, sp + 1, Len(line))]

\* the block headers of s from position p on, in text order
RECURSIVE BlockHeaders(_, _, _)
BlockHeaders(s, M, p) ==
    LET k == FirstAt({m \in M : m >= p}, s)
    IN  IF k > Len(s) THEN <<>> ELSE <<BlockHeader(s, k)>> \o BlockHeaders(s, M, k + 1)

OfKind(kind, blocks) == [i \in 1..Len(blocks) |-> [kind |-> kind, name |-> blocks[i].name]]

\* C11: the text generate_csl wrote starts with the bounded-context header, and
\* its blocks are the aggregates, then the entities, then the value objects,
\* then the domain service, then the domain events, then the repositories of
\* the Domain Model, each kind in the order of the model.
C11_BlockOrder ==
    (pc = "exited" /\ exit = 0)
    => /\ MatchAt(csl.content, <<"B","o","u","n","d","e","d","C","o","n","t","e","x","t"," ">> \o ddd.bounded_context \o <<" ","{">> \o <<"\n">>, 1)
       /\ BlockHeaders(csl.content, BlockLines(csl.content), 1)
            = OfKind(<<"A","g","g","r","e","g","a","t","e">>, ddd.aggregates)
              \o OfKind(<<"E","n","t","i","t","y">>, ddd.entities)
              \o OfKind(<<"V","a","l","u","e","O","b","j","e","c","t">>, ddd.value_objects)
              \o OfKind(<<"D","o","m","a","i","n","S","e","r","v","i","c","e">>, ddd.domain_services)
              \o OfKind(<<"D","o","m","a","i","n","E","v","e","n","t">>, ddd.domain_events)
              \o OfKind(<<"R","e","p","o","s","i","t","o","r","y">>, ddd.repositories)

\* a text was written that holds two entities, two value objects, the domain
\* service, two domain events and a repository
C11_Witness ==
    /\ pc = "exited" /\ exit = 0
    /\ Len(ddd.aggregates) >= 1 /\ Len(ddd.entities) >= 2 /\ Len(ddd.value_objects) >= 2
    /\ Len(ddd.domain_services) = 1 /\ Len(ddd.domain_events) >= 2
    /\ Len(ddd.repositories) >= 1
    /\ Len(BlockHeaders(csl.content, BlockLines(csl.content), 1)) >= 9

\* s without its whitespace
SpacesRemoved(s) == SelectSeq(s, LAMBDA c : ~IsSpace(c))

\* s without its whitespace, the first character of every word in upper case
\* and the others in lower case
WordsCapitalized(s) ==
    SpacesRemoved([i \in 1..Len(s) |->
        IF i = 1 \/ IsSpace(s[i - 1]) THEN UpperChar(s[i]) ELSE LowerChar(s[i])])

\* C12 as claimed: at most one domain service, named InventoryPermissionPolicy,
\* present exactly when the tree has an operation, with one behavior per
\* operation in order, named "can" followed by the operation name with its
\* spaces removed.
C12_PermissionService ==
    pc = "inferred"
    => /\ Len(ddd.domain_services) <= 1
       /\ (Len(ddd.domain_services) = 1) <=> (Len(prd.operations) >= 1)
       /\ \A k \in 1..Len(ddd.domain_services) :
            /\ ddd.domain_services[k].name = <<"I","n","v","e","n","t","o","r","y","P","e","r","m","i","s","s","i","o","n","P","o","l","i","c","y">>
            /\ Len(ddd.domain_services[k].behaviors) = Len(prd.operations)
            /\ \A i \in 1..Len(prd.operations) :
                 ddd.domain_services[k].behaviors[i].name
                   = <<"c","a","n">> \o SpacesRemoved(prd.operations[i].name)

\* C12 amended: the same, the behavior named "can" followed by the words of the
\* operation name, each capitalized (first letter upper case, the rest lower
\* case), concatenated.
C12_PermissionServiceAmended ==
    pc = "inferred"
    => /\ Len(ddd.domain_services) <= 1
       /\ (Len(ddd.domain_services) = 1) <=> (Len(prd.operations) >= 1)
       /\ \A k \in 1..Len(ddd.domain_services) :
            /\ ddd.domain_services[k].name = <<"I","n","v","e","n","t","o","r","y","P","e","r","m","i","s","s","i","o","n","P","o","l","i","c","y">>
            /\ Len(ddd.domain_services[k].behaviors) = Len(prd.operations)
            /\ \A i \in 1..Len(prd.operations) :
                 ddd.domain_services[k].behaviors[i].name
                   = <<"c","a","n">> \o WordsCapitalized(prd.operations[i].name)

\* two operations were inferred, one of them named in lower case
C12_Witness ==
    /\ pc = "inferred"
    /\ Len(prd.operations) = 2
    /\ prd.operations[2].name = <<"v","i","e","w"," ","s","t","o","c","k">>
    /\ Len(ddd.domain_services) = 1
    /\ ddd.domain_services[1].behaviors[2].name = <<"c","a","n","V","i","e","w","S","t","o","c","k">>

\* the notifications of the operations from operation i on, each with the
\* number of its operation, in operation order then notification order
RECURSIVE NotificationsFrom(_, _)
NotificationsFrom(ops, i) ==
    IF i > Len(ops) THEN <<>>
    ELSE [j \in 1..Len(ops[i].notifications) |-> [op |-> i, notif |-> ops[i].notifications[j]]]
         \o NotificationsFrom(ops, i + 1)

\* the capitalized token at index n (from 0) of the space-delimited tokens of
\* s, empty when there is none
CapitalizedToken(s, n) ==
    IF Len(Split(s, " ")) > n THEN Capitalize(Split(s, " ")[n + 1]) ELSE <<>>

\* C13: the domain events are one per notification, in operation order then
\* notification order; the name is the capitalized tokens 1 and 2 of the
\* notification concatenated, the description the notification, the attributes
\* the inputs of the operation with capitalized types.
C13_EventPerNotification ==
    pc = "inferred"
    => LET ns == NotificationsFrom(prd.operations, 1)
       IN  /\ Len(ddd.domain_events) = Len(ns)
           /\ \A k \in 1..Len(ns) :
                LET event == ddd.domain_events[k]
                    inputs == prd.operations[ns[k].op].inputs
                IN  /\ event.name = CapitalizedToken(ns[k].notif, 1) \o CapitalizedToken(ns[k].notif, 2)
                    /\ event.description = ns[k].notif
                    /\ Len(event.attributes) = Len(inputs)
                    /\ \A a \in 1..Len(inputs) :
                         /\ event.attributes[a].name = inputs[a].name
                         /\ event.attributes[a].type = Capitalize(inputs[a].type)

\* events were inferred from two operations: one named from a notification of
\* five tokens, one with an empty name from a notification of one token, and
\* one with an input
C13_Witness ==
    /\ pc = "inferred"
    /\ Len(prd.operations) = 2
    /\ Len(ddd.domain_events) = 4
    /\ \E k \in 1..4 : ddd.domain_events[k].name = <<"W","a","s","N","o","t","i","f","i","e","d">>
    /\ \E k \in 1..4 : ddd.domain_events[k].name = <<>>
    /\ \E k \in 1..4 : ddd.domain_events[k].name = <<"L","o","w">>
    /\ \E k \in 1..4 : Len(ddd.domain_events[k].attributes) = 1

(***************************************************************************)
(* Notation files handed to the converter: a bounded context holding       *)
(* blocks in the forms generate_csl writes and in the forms with           *)
(* constraint lists that parse_attributes reads.                           *)
(***************************************************************************)

MaxNotationBlocks == 2   \* blocks of a notation file

NotationLines == <<
    <<" "," ","E","n","t","i","t","y"," ","B","o","o","k"," ","{">>,
    <<" "," "," "," ","a","t","t","r","i","b","u","t","e","s",":"," ","{">>,
    <<" "," "," "," "," "," ","i","d",":"," ","T","e","x","t","{","r","e","q","u","i","r","e","d","}">>,
    <<" "," "," "," "," "," ","t","a","g","s",":"," ","L","i","s","t","{","o","p","t","i","o","n","a","l",","," ","r","e","q","u","i","r","e","d","}">>,
    <<" "," "," "," "," "," ","t","i","t","l","e",":"," ","T","e","x","t">>,
    <<" "," "," "," ","}">>,
    <<" "," ","}">>,
    <<" "," ","E","n","t","i","t","y"," ","M","e","m","b","e","r"," ","{">>,
    <<" "," "," "," ","d","e","s","c","r","i","p","t","i","o","n",":"," ","\"","A"," ","m","e","m","b","e","r","\"">>,
    <<" "," "," "," "," "," ","e","m","a","i","l",":"," ","T","e","x","t">>,
    <<" "," "," "," ","i","n","v","a","r","i","a","n","t","s",":"," ","{">>,
    <<" "," "," "," ","b","e","h","a","v","i","o","r","s",":"," ","{">>,
    <<" "," "," "," "," "," ","A","d","d"," ","M","e","m","b","e","r",":"," ","\"","A","d","d","s"," ","a"," ","m","e","m","b","e","r","\"">>,
    <<" "," "," "," "," "," ","R","e","m","o","v","e"," ","M","e","m","b","e","r",":"," ","\"","P","e","r","f","o","r","m","s"," ","r","e","m","o","v","e"," ","m","e","m","b","e","r",".","\"">>,
    <<" "," ","E","n","t","i","t","y"," ","T","a","g"," ","{"," ","a","t","t","r","i","b","u","t","e","s",":"," ","{"," ","n","a","m","e",":"," ","T","e","x","t","{","o","p","t","i","o","n","a","l","}"," ","}"," ","}">>,
    <<" "," ","V","a","l","u","e","O","b","j","e","c","t"," ","R","o","l","e"," ","{">>,
    <<" "," "," "," ","d","e","s","c","r","i","p","t","i","o","n",":"," ","\"","R","e","p","r","e","s","e","n","t","s"," ","a"," ","u","s","e","r"," ","r","o","l","e",".","\"">>,
    <<" "," "," "," "," "," ","n","a","m","e",":"," ","S","t","r","i","n","g">>,
    <<" "," "," "," "," "," ","I","1",":"," ","\"","n","a","m","e"," ","m","u","s","t"," ","b","e"," ","A","D","M","I","N"," ","o","r"," ","R","E","G","U","L","A","R","_","U","S","E","R","\"">>,
    <<" "," "," "," ","i","n","s","t","a","n","c","e","s",":"," ","{">>,
    <<" "," "," "," "," "," ","A","D","M","I","N",":"," ","\"","G","r","a","n","t","s"," ","a","d","d","/","r","e","m","o","v","e"," ","p","e","r","m","i","s","s","i","o","n","s","\"">>,
    <<" "," "," "," "," "," ","R","E","G","U","L","A","R","_","U","S","E","R",":"," ","\"","G","r","a","n","t","s"," ","v","i","e","w"," ","p","e","r","m","i","s","s","i","o","n","s","\"">>,
    <<" "," ","V","a","l","u","e","O","b","j","e","c","t"," ","I","s","b","n"," ","{">>,
    <<" "," "," "," ","d","e","s","c","r","i","p","t","i","o","n",":"," ","\"","I","s","b","n"," ","f","o","r"," ","B","o","o","k",".","\"">>,
    <<" "," "," "," "," "," ","v","a","l","u","e",":"," ","N","u","m","b","e","r">>,
    <<" "," "," "," "," "," ","I","1",":"," ","\"","U","n","i","q","u","e","\"">>,
    <<" "," ","A","g","g","r","e","g","a","t","e"," ","B","o","o","k"," ","{">>,
    <<" "," "," "," ","d","e","s","c","r","i","p","t","i","o","n",":"," ","\"","R","e","p","r","e","s","e","n","t","s"," ","a"," ","b","o","o","k",".","\"">>,
    <<" "," "," "," ","r","o","o","t",":"," ","B","o","o","k">>,
    <<" "," ","E","n","t","i","t","y"," ","L","o","a","n"," ","{">>,
    <<" "," "," "," "," "," ","d","u","e",":"," ","D","a","t","e","{","o","p","t","i","o","n","a","l","}">>,
    <<>>,
    <<" "," ","E","n","t","i","t","y"," ","S","h","e","l","f"," ","{"," ","b","e","h","a","v","i","o","r","s",":"," ","{"," ","A","d","d"," ","S","h","e","l","f",":"," ","\"","A","d","d","s"," ","a"," ","s","h","e","l","f","\""," ","}"," ","}">> >>

\* the blocks to choose from, by line number: Entity Book with constraint
\* lists, Entity Member and ValueObject Role and Isbn as generate_csl writes
\* them, Entity Tag on one line, Aggregate Book, Entity Loan, Entity Shelf
\* with behaviors and without attributes
NotationBlocks == <<
    <<1, 2, 3, 4, 5, 6, 7, 32>>,
    <<8, 9, 2, 10, 6, 11, 6, 12, 13, 14, 6, 7, 32>>,
    <<15, 32>>,
    <<16, 17, 2, 18, 6, 11, 19, 6, 20, 21, 22, 6, 7, 32>>,
    <<23, 24, 2, 25, 6, 11, 26, 6, 7, 32>>,
    <<27, 28, 29, 7, 32>>,
    <<30, 2, 31, 6, 7, 32>>,
    <<33, 32>> >>

\* the model fields the attribute lines of each block stand for
NotationFields == <<
    << <<"i","d",":"," ","t","e","x","t",";">>, <<"t","a","g","s",":"," ","s","t","r","i","n","g","[","]","?",";">>, <<"t","i","t","l","e",":"," ","t","e","x","t",";">> >>,
    << <<"e","m","a","i","l",":"," ","t","e","x","t",";">> >>,
    << <<"n","a","m","e",":"," ","t","e","x","t","?",";">> >>,
    <<>>, <<>>, <<>>,
    << <<"d","u","e",":"," ","d","a","t","e","?",";">> >>,
    <<>> >>

\* the enum each block stands for: its name and its members
NotationEnums == <<
    <<>>, <<>>, <<>>,
    << <<"e","n","u","m"," ","R","o","l","e"," ","{">>, <<"A","D","M","I","N",",">>, <<"R","E","G","U","L","A","R","_","U","S","E","R",",">> >>,
    <<>>, <<>>, <<>>, <<>> >>

NotationFile(choice) ==
    <<"B","o","u","n","d","e","d","C","o","n","t","e","x","t"," ","L","i","b","r","a","r","y"," ","{">> \o <<"\n">>
    \o BlocksText(NotationLines, NotationBlocks, choice)
    \o <<"}">> \o <<"\n">>

InitNotation ==
    /\ pc = "exited"
    /\ exit = 0
    /\ \E choice \in BlockChoices(MaxNotationBlocks, NotationBlocks) :
           csl = [exists |-> TRUE, content |-> NotationFile(choice)]
    /\ prd = EmptyTree
    /\ ddd = NoModel
    /\ text = <<>>
    /\ cur = StartOfFile
    /\ env = NoEnvironment
    /\ run = 1
    /\ first = <<>>
    /\ tsp = NewConverter

NextNotation == Convert \/ Reconvert

SpecNotation == InitNotation /\ [][NextNotation]_vars

\* the lines of the blocks of choice, taken from per-block lists
RECURSIVE Expected(_, _)
Expected(perBlock, choice) ==
    IF choice = <<>> THEN <<>>
    ELSE perBlock[Head(choice)] \o Expected(perBlock, Tail(choice))

\* the fields of the models of the output: the lines between a line
\* "model ... {" and the next line "}", indentation aside
RECURSIVE ModelFieldLines(_, _, _)
ModelFieldLines(lines, i, inModel) ==
    IF i > Len(lines) THEN <<>>
    ELSE IF MatchAt(lines[i], <<"m","o","d","e","l"," ">>, 1) THEN ModelFieldLines(lines, i + 1, TRUE)
    ELSE IF Strip(lines[i]) = <<"}">> THEN ModelFieldLines(lines, i + 1, FALSE)
    ELSE (IF inModel THEN <<Strip(lines[i])>> ELSE <<>>) \o ModelFieldLines(lines, i + 1, inModel)

\* C14 as claimed: converting a notation file, every attribute line of an
\* Entity's attributes sub-block gives one model field, in order, marked
\* optional ("?") exactly when its constraint list contains "optional".
C14_OptionalMarker ==
    pc = "converted"
    => \A choice \in BlockChoices(MaxNotationBlocks, NotationBlocks) :
           csl.content = NotationFile(choice)
           => ModelFieldLines(tsp.output, 1, FALSE) = Expected(NotationFields, choice)

\* the enums of the output: every line "enum ... {" and, up to the next line
\* "}", the lines that are no @doc line, indentation aside
RECURSIVE EnumLines(_, _, _)
EnumLines(lines, i, inEnum) ==
    IF i > Len(lines) THEN <<>>
    ELSE IF MatchAt(lines[i], <<"e","n","u","m"," ">>, 1)
         THEN <<lines[i]>> \o EnumLines(lines, i + 1, TRUE)
    ELSE IF Strip(lines[i]) = <<"}">> THEN EnumLines(lines, i + 1, FALSE)
    ELSE (IF inEnum /\ ~MatchAt(Strip(lines[i]), <<"@","d","o","c","(">>, 1) THEN <<Strip(lines[i])>> ELSE <<>>)
         \o EnumLines(lines, i + 1, inEnum)

\* the lines of the output that precede a member of an enum
DocumentedMembers ==
    {i \in 2..Len(tsp.output) :
        /\ MatchAt(Strip(tsp.output[i - 1]), <<"@","d","o","c","(">>, 1)
        /\ Len(tsp.output[i]) > 0
        /\ tsp.output[i][Len(tsp.output[i])] = ","}

\* C15 as claimed: converting a notation file, every ValueObject block with a
\* non-empty instances sub-block gives one enum named after it with one
\* documented member per instance, in order, and a ValueObject without
\* instances gives no enum.
C15_EnumPerValueObject ==
    pc = "converted"
    => \A choice \in BlockChoices(MaxNotationBlocks, NotationBlocks) :
           csl.content = NotationFile(choice)
           => LET enums == Expected(NotationEnums, choice)
              IN  /\ EnumLines(tsp.output, 1, FALSE) = enums
                  /\ Cardinality(DocumentedMembers)
                       = Cardinality({i \in 1..Len(enums) : ~MatchAt(enums[i], <<"e","n","u","m"," ">>, 1)})

\* the line parse_prd is about to handle, stripped
CurrentLine == Strip(cur.lines[cur.i])

\* the Thing the parser is in, with item appended to one of its lists
WithProperty(item) ==
    [prd EXCEPT !.things[cur.thing].properties = Append(@, item)]
WithRule(item) ==
    [prd EXCEPT !.things[cur.thing].rules = Append(@, item)]

\* C16: in the line-based parse_prd, a bullet `- name: text` read inside a
\* Properties, Rules or Actions subsection of a Thing starts no Thing: the
\* parser stays in its Thing and subsection, and the tree changes only by the
\* item the line gives the list of that subsection (a property name/text, the
\* rule "name: text"; no action, which needs a name of two words).
C16_NoThingInSubsection ==
    [][ (/\ pc = "reading" /\ cur.i <= Len(cur.lines) /\ cur'.i = cur.i + 1
         /\ cur.section = <<"t","h","i","n","g","s">> /\ cur.thing # 0
         /\ cur.subsection \in {<<"p","r","o","p","e","r","t","i","e","s">>, <<"r","u","l","e","s">>, <<"a","c","t","i","o","n","s">>}
         /\ ThingMatch(CurrentLine).ok)
        => /\ Len(prd'.things) = Len(prd.things)
           /\ cur'.thing = cur.thing
           /\ cur'.subsection = cur.subsection
           /\ prd' = IF cur.subsection = <<"p","r","o","p","e","r","t","i","e","s">>
                     THEN WithProperty([name |-> ThingMatch(CurrentLine).g1,
                                        description |-> Strip(ThingMatch(CurrentLine).g2)])
                     ELSE IF cur.subsection = <<"r","u","l","e","s">>
                     THEN WithRule(ThingMatch(CurrentLine).g1 \o <<":"," ">> \o ThingMatch(CurrentLine).g2)
                     ELSE prd ]_vars

\* the file is read and the bullet "- Member: A member", met in the Rules
\* subsection of Book, has become a rule of Book, the only Thing
C16_Witness ==
    /\ pc = "read"
    /\ Len(prd.things) = 1
    /\ prd.things[1].name = <<"B","o","o","k">>
    /\ \E r \in 1..Len(prd.things[1].rules) : prd.things[1].rules[r] = <<"M","e","m","b","e","r",":"," ","A"," ","m","e","m","b","e","r">>

\* C17 as claimed: in the Document Tree parse_prd returns, every Thing and
\* every Operation has a non-empty name.
C17_NamesNonEmpty ==
    pc = "read"
    => /\ \A i \in 1..Len(prd.things) : prd.things[i].name # <<>>
       /\ \A i \in 1..Len(prd.operations) : prd.operations[i].name # <<>>

\* how many of the first i Things have (id = TRUE) or lack (id = FALSE) a
\* "unique" property: the place of Thing i among the entities, or among the
\* value objects built from Things
PlaceOf(i, id) == Cardinality({k \in 1..i : has_id(prd.things[k]) = id})

\* the attributes built from the properties of Thing i
AttributesBuilt(i) ==
    IF has_id(prd.things[i]) THEN ddd.entities[PlaceOf(i, TRUE)].attributes
    ELSE ddd.value_objects[PlaceOf(i, FALSE)].attributes

\* C18 as claimed: an attribute built from a property of a Thing, in an Entity
\* or in a ValueObject, has the type List when the description contains
\* "list of", and else the capitalized first comma-separated token of the
\* description.
C18_AttributeTyping ==
    pc = "inferred"
    => \A i \in 1..Len(prd.things) :
         /\ Len(AttributesBuilt(i)) = Len(prd.things[i].properties)
         /\ \A j \in 1..Len(prd.things[i].properties) :
              LET description == prd.things[i].properties[j].description
              IN  AttributesBuilt(i)[j].type
                    = IF Contains(Lower(description), <<"l","i","s","t"," ","o","f">>) THEN <<"L","i","s","t">>
                      ELSE Capitalize(Strip(Split(description, ",")[1]))

\* whether a property description holds a cue for a synthesized value object
HasCue(prop) ==
    \/ Contains(Lower(prop.description), <<"u","n","i","q","u","e">>)
    \/ Contains(Lower(prop.description), <<"v","a","l","i","d"," ","e","m","a","i","l">>)

\* the properties with a cue of the Things from Thing i on, in Thing order
\* then property order
RECURSIVE CuedProperties(_, _)
CuedProperties(things, i) ==
    IF i > Len(things) THEN <<>>
    ELSE SelectSeq(things[i].properties, HasCue) \o CuedProperties(things, i + 1)

\* the value objects after those built from Things, the Role enumeration
\* (the one with instances) left out
SynthesizedValueObjects ==
    SelectSeq(SubSeq(ddd.value_objects, PlaceOf(Len(prd.things), FALSE) + 1,
                     Len(ddd.value_objects)),
              LAMBDA vo : vo.instances = <<>>)

\* the comma-separated tokens of a description after the first, stripped
RemainingTokens(description) == StripAll(Tail(Split(description, ",")))

\* C19 as claimed: the synthesized value objects are one per property whose
\* description contains "unique" or "valid email", in property order, named
\* after the capitalized property name, with the single attribute value typed
\* by the capitalized first token and the remaining tokens as invariants.
C19_SynthesizedValueObjects ==
    pc = "inferred"
    => LET cued == CuedProperties(prd.things, 1)
           vos == SynthesizedValueObjects
       IN  /\ Len(vos) = Len(cued)
           /\ \A k \in 1..Len(cued) :
                /\ vos[k].name = Capitalize(cued[k].name)
                /\ vos[k].attributes
                     = << [name |-> <<"v","a","l","u","e">>,
                           type |-> Capitalize(Strip(Split(cued[k].description, ",")[1]))] >>
                /\ vos[k].invariants = RemainingTokens(cued[k].description)

\* C19 amended: the same, the invariants being the remaining tokens that are
\* not empty, each stripped.
C19_SynthesizedValueObjectsAmended ==
    pc = "inferred"
    => LET cued == CuedProperties(prd.things, 1)
           vos == SynthesizedValueObjects
       IN  /\ Len(vos) = Len(cued)
           /\ \A k \in 1..Len(cued) :
                /\ vos[k].name = Capitalize(cued[k].name)
                /\ vos[k].attributes
                     = << [name |-> <<"v","a","l","u","e">>,
                           type |-> Capitalize(Strip(Split(cued[k].description, ",")[1]))] >>
                /\ vos[k].invariants
                     = StripAll(SelectSeq(Tail(Split(cued[k].description, ",")), NonEmpty))

\* value objects were synthesized from a "unique" property, a "valid email"
\* property and a property with an empty token, next to a property
\* without a cue
C19_Witness ==
    /\ pc = "inferred"
    /\ Len(prd.things) = 2
    /\ \E k \in 1..Len(ddd.value_objects) :
         /\ ddd.value_objects[k].name = <<"C","o","d","e">>
         /\ ddd.value_objects[k].invariants = << <<"U","n","i","q","u","e">>, <<"r","e","q","u","i","r","e","d">> >>
    /\ \E k \in 1..Len(ddd.value_objects) :
         /\ ddd.value_objects[k].name = <<"E","m","a","i","l">>
         /\ ddd.value_objects[k].invariants = << <<"v","a","l","i","d"," ","e","m","a","i","l">> >>
    /\ \E i \in 1..2 : \E j \in 1..Len(prd.things[i].properties) :
         ~HasCue(prd.things[i].properties[j])

\* the word characters of s
WordCharacters(s) == SelectSeq(s, IsWord)

\* C20 as claimed: the bounded-context name is never empty; it is the
\* business area with its non-word characters stripped (letter case aside), and
\* the placeholder UnnamedContext whenever nothing is left of it.
C20_ContextNamed ==
    pc = "inferred"
    => /\ ddd.bounded_context # <<>>
       /\ IF WordCharacters(prd.overview.business_area) = <<>>
          THEN ddd.bounded_context = <<"U","n","n","a","m","e","d","C","o","n","t","e","x","t">>
          ELSE Lower(ddd.bounded_context) = Lower(WordCharacters(prd.overview.business_area))

(***************************************************************************)
(* Claims about what the stages leave alone                                *)
(***************************************************************************)
\* C21: infer_ddd_elements leaves the Document Tree it receives unchanged,
\* also when the instances of the Role value object are filled in, and
\* generate_csl leaves the Domain Model (and the tree) unchanged.
C21_StagesReadOnly ==
    [][/\ (pc = "parsed" /\ pc' = "inferred") => prd' = prd
       /\ (pc = "inferred" /\ pc' = "exited") => (ddd' = ddd /\ prd' = prd)]_vars

\* a tree with a Thing named Role that became a value object, whose instances
\* infer_ddd_elements filled in, has gone through both stages
C21_Witness ==
    /\ pc = "exited"
    /\ exit = 0
    /\ csl.exists
    /\ \E i \in 1..Len(prd.things), k \in 1..Len(ddd.value_objects) :
           /\ prd.things[i].name = <<"R","o","l","e">>
           /\ ~has_id(prd.things[i])
           /\ ddd.value_objects[k].name = <<"R","o","l","e">>
           /\ ddd.value_objects[k].description = prd.things[i].description
           /\ ddd.value_objects[k].instances = RoleInstances

(***************************************************************************)
(* Claims about the line-based parse_prd: Things and operation fields      *)
(***************************************************************************)
\* the Thing Book followed by one subsection of its own (properties or
\* actions), then the Thing Member followed by its Rules subsection
ListingFiles == {ThingsFile(<<1, s, 7>>) : s \in {3, 4, 5}}

\* C22 as claimed: a Things section that lists the Things Book and Member one
\* after another, each followed by its own subsections, yields exactly these
\* two Things in source order, and each holds only the items listed under its
\* own subsections (the rule of Member is a rule of Member and of no one else,
\* and Member is not an item of Book).
C22_EveryBulletStartsThing ==
    (pc = "read" /\ text \in ListingFiles) =>
        /\ NamesOf(prd.things) = << <<"B","o","o","k">>, <<"M","e","m","b","e","r">> >>
        /\ prd.things[2].rules = << <<"T","i","t","l","e"," ","m","u","s","t"," ","b","e"," ","s","e","t">> >>
        /\ prd.things[2].properties = <<>>
        /\ prd.things[1].rules = <<>>
        /\ \A k \in 1..Len(prd.things[1].properties) :
               prd.things[1].properties[k].name # <<"M","e","m","b","e","r">>

\* the labels of the fields of an operation block
KnownLabels ==
    {<<"I","n","p","u","t","s">>, <<"O","u","t","p","u","t","s">>, <<"C","o","n","d","i","t","i","o","n","s">>, <<"R","e","s","u","l","t","s">>, <<"N","o","t","i","f","i","c","a","t","i","o","n","s">>}

\* the operation Add Book with the input title, then its outputs and notifications
LabeledFile == SectionsFile(<<3, 5, 6>>)

\* C23 as claimed: each labeled field of an operation ends at the next known
\* label: no labeled line is ever recorded as an input, and in the operation
\* Add Book whose Inputs label is followed by `- title: text` and then by
\* `- Outputs: A book`, the inputs are the single input title and the outputs
\* are "A book".
C23_FieldsEndAtNextLabel ==
    pc = "read" =>
        /\ \A o \in 1..Len(prd.operations) :
               \A k \in 1..Len(prd.operations[o].inputs) :
                   prd.operations[o].inputs[k].name \notin KnownLabels
        /\ text = LabeledFile =>
               /\ prd.operations[1].inputs = << [name |-> <<"t","i","t","l","e">>, type |-> <<"t","e","x","t">>] >>
               /\ prd.operations[1].outputs = <<"A"," ","b","o","o","k">>

(***************************************************************************)
(* Claims about parse_prd of the main program                              *)
(***************************************************************************)
\* the Operations section with the operation [Add Book]: the input title and
\* the two notification bullets `- A book added` and `- Done`
NotifiedFiles == {PartsFile(<<5>>), PartsFile(<<1, 5>>), PartsFile(<<2, 5>>)}

\* C24 as claimed: every bulleted line under the Notifications label of an
\* operation is recorded in its notifications, in source order and with nothing
\* of other fields mixed in (and likewise for conditions, of which the
\* operation lists none), so that the two notification bullets of the
\* operation later yield two domain events.
C24_BulletsRecorded ==
    text \in NotifiedFiles =>
        /\ pc \in {"parsed", "inferred"} =>
               /\ Len(prd.operations) = 1
               /\ prd.operations[1].notifications = << <<"A"," ","b","o","o","k"," ","a","d","d","e","d">>, <<"D","o","n","e">> >>
               /\ prd.operations[1].conditions = <<>>
        /\ pc = "inferred" => Len(ddd.domain_events) = 2

\* the parts that are a whole section of items: things, operations, key terms
\* with features and connections, constraints
ItemParts == {3, 5, 6, 7}

\* the items the tree holds, kind by kind
ItemsOf(p) ==
    << p.key_terms, p.features, p.connections, p.constraints, p.things, p.operations >>

\* C25 as claimed: a section with an unknown name (here `# Product
\* Requirements Document`) changes nothing in the tree, and when the same known
\* section appears twice in the text, the items of both occurrences are in the
\* tree in source order, for every kind of section.
C25_SectionsAccumulate ==
    pc = "parsed" =>
        \A x \in ItemParts :
            LET once == ItemsOf(parse_prd(PartsFile(<<x>>)))
            IN  /\ text = PartsFile(<<1, x>>) => ItemsOf(prd) = once
                /\ text = PartsFile(<<x, x>>) =>
                       ItemsOf(prd) = [k \in 1..6 |-> once[k] \o once[k]]

\* the text of the bullet a property was read from, up to white space
PropertyLine(p) == p.name \o <<":"," ">> \o p.description

\* item is the text of the bullet the property p was read from
SameBullet(item, p) ==
    /\ MatchAt(item, p.name \o <<":">>, 1)
    /\ Strip(Rest(item, Len(p.name) + 2)) = p.description

\* C26 as claimed: in the tree parse_prd returns, no property of a Thing comes
\* from a bullet containing "must" or "needs", and no bullet is recorded both
\* as a property and as a rule or an action of the same Thing.
C26_NoCrossContamination ==
    pc = "parsed" =>
        \A t \in 1..Len(prd.things) :
            \A k \in 1..Len(prd.things[t].properties) :
                LET p == prd.things[t].properties[k]
                IN  /\ ~Contains(Lower(PropertyLine(p)), <<"m","u","s","t">>)
                    /\ ~Contains(Lower(PropertyLine(p)), <<"n","e","e","d","s">>)
                    /\ \A r \in 1..Len(prd.things[t].rules) :
                           ~SameBullet(prd.things[t].rules[r], p)
                    /\ \A a \in 1..Len(prd.things[t].actions) :
                           ~SameBullet(prd.things[t].actions[a], p)

\* the Things section with the Thing Book, then `## Properties:` and the
\* property title
MarkedThings == PartsFile(<<3, 4>>)

\* the Operations section with the block `## Add Book`
MarkedOperations == PartsFile(<<10>>)

\* C27 as claimed: a subsection marker does not end the enclosing section:
\* the property title listed under `## Properties:` reaches the Thing Book,
\* and the block `## Add Book` of the Operations section yields the Operation
\* Add Book.
C27_MarkersStayInside ==
    pc = "parsed" =>
        /\ text = MarkedThings =>
               /\ NamesOf(prd.things) = << <<"B","o","o","k">> >>
               /\ \E k \in 1..Len(prd.things[1].properties) :
                      prd.things[1].properties[k].name = <<"t","i","t","l","e">>
        /\ text = MarkedOperations =>
               /\ NamesOf(prd.operations) = << <<"A","d","d"," ","B","o","o","k">> >>
               /\ prd.operations[1].who = <<"A","d","m","i","n"," ","O","n","l","y">>

(***************************************************************************)
(* Claims about the converter object                                       *)
(***************************************************************************)
\* the body fields the required attributes of each entity of NotationLines
\* stand for, by the name the create operation gives the body
RequiredOf(body_name) ==
    IF body_name = <<"b","o","o","k">> THEN << <<"i","d",":"," ","t","e","x","t",";">>, <<"t","a","g","s",":"," ","l","i","s","t",";">> >> ELSE <<>>

\* the lines of the output that open the body of a create operation
CreateLines == {i \in 1..Len(tsp.output) : MatchAt(Strip(tsp.output[i]), <<"c","r","e","a","t","e","(","@","b","o","d","y"," ">>, 1)}

\* the name of the body opened at line i and the field lines up to its end
BodyName(i) ==
    LET line == Strip(tsp.output[i])
    IN  SubSeq(line, 14, Find(line, <<":">>, 14) - 1)

BodyFields(i) ==
    LET ends == {j \in (i + 1)..Len(tsp.output) : Strip(tsp.output[j]) = <<"}",")",":"," ","{">>}
        j    == IF ends = {} THEN Len(tsp.output) + 1 ELSE Min(ends)
    IN  [k \in 1..(j - i - 1) |-> Strip(tsp.output[i + k])]

C29_ConvertRepeatable ==
    /\ pc \in {"converted", "reconverted"} => tsp.indent_level = 0
    /\ pc = "reconverted" => JoinLines(tsp.output) = first

\* convert has returned twice on a text with an Entity and a ValueObject block
C29_Witness ==
    /\ pc = "reconverted"
    /\ Blocks(csl.content, <<"E","n","t","i","t","y">>) # <<>>
    /\ Blocks(csl.content, <<"V","a","l","u","e","O","b","j","e","c","t">>) # <<>>
    /\ first # <<>>
    /\ Len(tsp.output) > 1

(***************************************************************************)
(* Claims about the names of the Domain Model                              *)
(***************************************************************************)
\* C30 as claimed: after infer_ddd_elements no two ValueObjects of the Domain
\* Model have the same name, and no ValueObject has the name of an Entity.
C30_NamesDistinct ==
    pc = "inferred" =>
        /\ \A i, j \in 1..Len(ddd.value_objects) :
               i # j => ddd.value_objects[i].name # ddd.value_objects[j].name
        /\ \A i \in 1..Len(ddd.value_objects), e \in 1..Len(ddd.entities) :
               ddd.value_objects[i].name # ddd.entities[e].name

====
